---- MODULE Spec2Model ----
(***************************************************************************)
(* Order-lifecycle engine of the swing-trading pipeline: the CLI commands  *)
(* scan / place / reconcile (cli/paper.py), the idempotent executor        *)
(* (trading/executor.py), the morning reconciliation                       *)
(* (trading/reconciliation.py) and the broker adapter                      *)
(* (broker/alpaca_adapter.py), with the broker as the environment.         *)
(*                                                                         *)
(* Prices are integer cents, the clock counts hours, a date is the clock   *)
(* divided by 24.  None is modelled as 0 for prices and as NoOrder for an  *)
(* order.  Every HTTP request of the adapter may fail; the outcome of each *)
(* request is an input of the action that sends it.                        *)
(***************************************************************************)
EXTENDS Integers, Sequences, FiniteSets, TLC

\* ---------------------------------------------------------------- bounds
MaxTick == 2
MaxOrders == 2
MaxIntents == 2

\* the scanner's universe, best score first
Universe == <<"A", "B">>
ClockSteps == {18}
Closes == {1000}
Styles == {"open", "market-now"}
Strategies == {"opg_bracket", "opg_then_oco", "day_bracket"}

\* reconciliation.py:62  `if hours_old > 18`
StaleHours == 18

VARIABLES
    now,              \* wall clock, hours                     (datetime.now())
    utc_suffix,       \* broker timestamps end in 'Z' (parsed as tz-aware)
    entry_style,      \* config.yaml paper_trading.order.entry_style
    orders,           \* broker order book, order id = index
    supports_cache,   \* AlpacaAdapter._supports_opg_bracket
    intents_files,    \* state/intents/<date>.json
    manifest_files,   \* state/manifest/<run_id>.json
    placement_files,  \* state/placement/<run_id>.json
    orders_log,       \* state/orders_log.jsonl
    place_call,       \* last place_orders call: batch, strategy, requests, summary
    prev_place,       \* the place_orders call before it
    fallback_call,    \* last direct place_with_fallback call and its result
    recon_call,       \* last morning_reconcile call: requests and summary
    last_cmd,         \* the operation that ran last
    sizing_call,      \* last compute_safe_position_size call and its result
    prev_sizing,      \* the sizing call before it
    caps_call,        \* last enforce_portfolio_caps call and its result
    build_call,       \* last build_order_intents call and its result
    gates_call,       \* last evaluate_gates call and its result
    score_call,       \* last calculate_score_v2 call and its result
    prev_score,       \* the calculate_score_v2 call before it
    regime_source,    \* what the market-data service answers for SPY / VIX
    regime_cache,     \* MarketRegimeDetector.cache of this process
    indicators_call,  \* last calculate_indicators_t_minus_1 call and its result
    prev_indicators,  \* the calculate_indicators_t_minus_1 call before it
    runs,             \* every run dict start_scan created, run id = index
    active_run,       \* ScannerWrapper.active_run: a run id, NoRun for None
    run_history,      \* ScannerWrapper.run_history
    scan_tasks,       \* the _run_scan task of each run: where it is, its local results
    sleepers,         \* the cancel_scan calls suspended in asyncio.sleep(0.5)
    state_moves,      \* the changes of a run state the last step made, and the call that made them
    filter_stats,     \* Scanner.filter_stats: reason -> count
    scan_results,     \* the results list of _scan_without_progress
    futures,          \* the future of each ticker: its worker's position and outcome
    next_future,      \* the future the collecting loop waits for, 0 before scan
    tallied,          \* for each ticker, the reasons _track_rejection was called with
    scan_return,      \* what scan returned, and the statistics at that moment
    fetch_call,       \* the last _fetch_bars_with_retry call and what it did
    tokens,           \* TokenBucket.tokens
    last_update,      \* TokenBucket.last_update, in ticks
    bucket_lock,      \* the thread that holds TokenBucket.lock, 0 when free
    bucket_clock,     \* time.time(), in ticks of one token
    callers,          \* the calling threads: where each is in its call
    bucket_calls,     \* the calls begun so far
    last_grant,       \* the last removal of tokens: by whom, how many, the balance around it
    ledger,           \* the tokens put into the bucket and the tokens granted since the last reset
    cache_files,      \* the files of the cache directory: 0 absent, PartialFile, or the number of the write that made it
    cache_locks,      \* CacheManager._locks: symbol -> lock object, 0 when there is none yet
    lock_holders,     \* for each lock object the thread that holds it, 0 when free
    lock_mutex,       \* the thread that holds CacheManager._lock_mutex, 0 when free
    writers,          \* the threads in write: where each is, its symbol, its lock, its content
    writes_begun,     \* the write calls begun so far
    last_good,        \* for each symbol the content of the last write that returned
    last_write        \* the write call that ended last, and how

\* the order life cycle: clock, configuration, broker, files, last calls
lifecycle_vars == <<now, utc_suffix, entry_style, orders, supports_cache, intents_files,
                    manifest_files, placement_files, orders_log, place_call, prev_place,
                    fallback_call, recon_call, last_cmd>>

\* the intent builder and the scoring engine
engine_vars == <<sizing_call, prev_sizing, caps_call, build_call, gates_call, score_call,
                 prev_score, regime_source, regime_cache>>

\* the indicators of the scoring engine: last calls
indicator_vars == <<indicators_call, prev_indicators>>

\* the scan service (api/scanner_wrapper.py): runs, tasks, suspended calls
run_vars == <<runs, active_run, run_history, scan_tasks, sleepers, state_moves>>

\* the scanner (swingtrading/scanner.py): statistics, futures, the collecting loop
scan_vars == <<filter_stats, scan_results, futures, next_future, tallied, scan_return>>

\* the data provider (swingtrading/data_provider.py): last call
fetch_vars == <<fetch_call>>

\* the rate limiter (swingtrading/rate_limiter.py): bucket, lock, threads
bucket_vars == <<tokens, last_update, bucket_lock, bucket_clock, callers, bucket_calls,
                 last_grant, ledger>>

\* the bar cache (swingtrading/cache_manager.py): files, locks, writing threads
cache_vars == <<cache_files, cache_locks, lock_holders, lock_mutex, writers,
                writes_begun, last_good, last_write>>

\* everything outside the order life cycle, the builder and the scoring engine
infra_vars == <<indicator_vars, run_vars, scan_vars, fetch_vars, bucket_vars,
                cache_vars>>

\* what the operations of the indicators leave alone
beside_indicator == <<lifecycle_vars, engine_vars, run_vars, scan_vars, fetch_vars,
                      bucket_vars, cache_vars>>

\* what the operations of the scan service leave alone
beside_run == <<lifecycle_vars, engine_vars, indicator_vars, scan_vars, fetch_vars,
                bucket_vars, cache_vars>>

\* what the operations of the scanner leave alone
beside_scan == <<lifecycle_vars, engine_vars, indicator_vars, run_vars, fetch_vars,
                 bucket_vars, cache_vars>>

\* what the operations of the data provider leave alone
beside_fetch == <<lifecycle_vars, engine_vars, indicator_vars, run_vars, scan_vars,
                  bucket_vars, cache_vars>>

\* what the operations of the rate limiter leave alone
beside_bucket == <<lifecycle_vars, engine_vars, indicator_vars, run_vars, scan_vars,
                   fetch_vars, cache_vars>>

\* what the operations of the bar cache leave alone
beside_cache == <<lifecycle_vars, engine_vars, indicator_vars, run_vars, scan_vars,
                  fetch_vars, bucket_vars>>

vars == <<now, utc_suffix, entry_style, orders, supports_cache, intents_files, manifest_files,
          placement_files, orders_log, place_call, prev_place, fallback_call,
          recon_call, last_cmd, sizing_call, prev_sizing, caps_call, build_call,
          gates_call, score_call, prev_score, regime_source, regime_cache,
          indicators_call, prev_indicators, runs, active_run, run_history, scan_tasks,
          sleepers, state_moves, filter_stats, scan_results, futures, next_future,
          tallied, scan_return, fetch_call, tokens, last_update, bucket_lock,
          bucket_clock, callers, bucket_calls, last_grant, ledger, cache_files,
          cache_locks, lock_holders, lock_mutex, writers, writes_begun, last_good,
          last_write>>

\* ------------------------------------------------------------ primitives
NoPrice == 0
NoOrder == [id |-> 0]

DateOf(t) == t \div 24

\* a file system directory: partial map from file name to content
Exists(dir, name) == name \in DOMAIN dir
WriteFile(dir, name, content) ==
    [n \in (DOMAIN dir) \cup {name} |-> IF n = name THEN content ELSE dir[n]]

\* paper_engine.py generate_run_id: f"{as_of.isoformat()}_scan"
generate_run_id(as_of) == <<as_of, "scan">>

\* round(n / d) to the nearest integer, ties to even (Python round), n >= 0
RoundDiv(n, d) ==
    LET q == n \div d
        r == n % d
    IN IF 2 * r < d THEN q
       ELSE IF 2 * r > d THEN q + 1
       ELSE IF q % 2 = 0 THEN q ELSE q + 1

\* paper_engine.py construct_entry_leg; buffer_bps in basis points
construct_entry_leg(style, ref_price, buffer_bps) ==
    IF style = "open"
    THEN [type |-> "limit", time_in_force |-> "opg",
          limit_price |-> RoundDiv(ref_price * (10000 + buffer_bps), 10000),
          open_only |-> TRUE]
    ELSE [type |-> "market", time_in_force |-> "day",
          limit_price |-> NoPrice, open_only |-> FALSE]

\* paper_engine.py construct_bracket_levels; the multipliers are in tenths,
\* the stop is floored at one cent
construct_bracket_levels(entry_price, atr, stop_mult, target_mult) ==
    [stop_loss |-> IF 10 * entry_price - atr * stop_mult <= 10 THEN 1
                   ELSE RoundDiv(10 * entry_price - atr * stop_mult, 10),
     take_profit |-> RoundDiv(10 * entry_price + atr * target_mult, 10)]

\* paper_engine.py build_order_intents: the intent built for one candidate row
\* (no price buffer, ATR of one dollar, stop at 2 ATR, target at 4 ATR)
BuildIntent(as_of, symbol, close, qty, style) ==
    [run_id |-> generate_run_id(as_of),
     symbol |-> symbol,
     side |-> "buy",
     qty |-> qty,
     entry |-> construct_entry_leg(style, close, 0),
     bracket |-> construct_bracket_levels(close, 100, 20, 40),
     client_order_id |-> <<generate_run_id(as_of), symbol, as_of>>]

\* ---------------------------------------------------------------- broker
\* alpaca_adapter.py get_order_by_client_id: orders[0] of the matches, or None
get_order_by_client_id(ords, coid) ==
    LET hits == {i \in 1..Len(ords) : ords[i].client_order_id = coid}
    IN IF hits = {} THEN NoOrder
       ELSE ords[CHOOSE i \in hits : \A j \in hits : i <= j]

\* the broker's answer to an accepted POST /v2/orders: a new order
NewOrder(ords, data, t) ==
    [id |-> Len(ords) + 1,
     client_order_id |-> data.client_order_id,
     symbol |-> data.symbol,
     qty |-> data.qty,
     side |-> data.side,
     type |-> data.type,
     time_in_force |-> data.time_in_force,
     order_class |-> data.order_class,
     limit_price |-> data.limit_price,
     stop_price |-> data.stop_price,
     target_price |-> data.target_price,
     status |-> "new",
     filled_qty |-> 0,
     created_at |-> t]

\* alpaca_adapter.py _request('POST', '/v2/orders', data); out = "reject" is an
\* HTTP error or a network failure, which raises
PostOrder(ords, data, out, t) ==
    IF out = "reject"
    THEN [orders |-> ords, raised |-> TRUE, order |-> NoOrder, posts |-> 1]
    ELSE [orders |-> Append(ords, NewOrder(ords, data, t)), raised |-> FALSE,
          order |-> NewOrder(ords, data, t), posts |-> 1]

\* alpaca_adapter.py submit_bracket_order
submit_bracket_order(ords, symbol, qty, side, entry_type, time_in_force, limit_price, stop_loss, take_profit, client_order_id, open_only, out, t) ==
    IF out = "submit_lookup_fail"
    THEN [orders |-> ords, raised |-> TRUE, order |-> NoOrder, posts |-> 0]
    ELSE IF get_order_by_client_id(ords, client_order_id) # NoOrder
    THEN [orders |-> ords, raised |-> FALSE,
          order |-> get_order_by_client_id(ords, client_order_id), posts |-> 0]
    ELSE LET legs == ~open_only /\ time_in_force # "opg"
             data == [symbol |-> symbol, qty |-> qty, side |-> side,
                      type |-> entry_type,
                      time_in_force |-> IF open_only THEN "opg" ELSE time_in_force,
                      client_order_id |-> client_order_id,
                      limit_price |-> IF entry_type = "limit" /\ limit_price # NoPrice
                                      THEN limit_price ELSE NoPrice,
                      order_class |-> IF legs THEN "bracket" ELSE "simple",
                      stop_price |-> IF legs THEN stop_loss ELSE NoPrice,
                      target_price |-> IF legs THEN take_profit ELSE NoPrice]
         IN PostOrder(ords, data, out, t)

\* alpaca_adapter.py submit_opg_entry
submit_opg_entry(ords, symbol, qty, limit_price, client_order_id, out, t) ==
    IF out = "submit_lookup_fail"
    THEN [orders |-> ords, raised |-> TRUE, order |-> NoOrder, posts |-> 0]
    ELSE IF get_order_by_client_id(ords, client_order_id) # NoOrder
    THEN [orders |-> ords, raised |-> FALSE,
          order |-> get_order_by_client_id(ords, client_order_id), posts |-> 0]
    ELSE PostOrder(ords,
                   [symbol |-> symbol, qty |-> qty, side |-> "buy", type |-> "limit",
                    time_in_force |-> "opg", limit_price |-> limit_price,
                    client_order_id |-> client_order_id, order_class |-> "simple",
                    stop_price |-> NoPrice, target_price |-> NoPrice],
                   out, t)

\* alpaca_adapter.py submit_oco_stops: no lookup before the write,
\* client_order_id = f"{parent_id}_oco"
submit_oco_stops(ords, symbol, qty, stop_price, target_price, parent_id, out, t) ==
    PostOrder(ords,
              [symbol |-> symbol, qty |-> qty, side |-> "sell", type |-> "limit",
               time_in_force |-> "gtc", order_class |-> "oco",
               limit_price |-> target_price, stop_price |-> stop_price,
               target_price |-> target_price,
               client_order_id |-> <<parent_id, "oco">>],
              out, t)

\* alpaca_adapter.py check_order_fill: <<is_filled, filled_qty>>; a failed GET
\* is caught and reported as not filled
check_order_fill(ords, order_id, out) ==
    IF out = "get_fail" \/ order_id \notin 1..Len(ords)
    THEN [is_filled |-> FALSE, filled_qty |-> 0]
    ELSE IF ords[order_id].status = "filled"
    THEN [is_filled |-> TRUE, filled_qty |-> ords[order_id].filled_qty]
    ELSE IF ords[order_id].status = "partially_filled"
    THEN [is_filled |-> FALSE, filled_qty |-> ords[order_id].filled_qty]
    ELSE [is_filled |-> FALSE, filled_qty |-> 0]

\* alpaca_adapter.py list_orders(status='open')
IsOpen(o) == o.status \in {"new", "partially_filled"}

\* -------------------------------------------------------------- executor
\* ensure_not_already_placed without the lookup: always safe to place
ensure_not_already_placed_unchecked(ords, client_order_id, out) == TRUE

\* executor.py ensure_not_already_placed: True when it is safe to place
ensure_not_already_placed(ords, client_order_id, out) ==
    IF out = "lookup_fail" THEN FALSE
    ELSE get_order_by_client_id(ords, client_order_id) = NoOrder

\* executor.py place_with_fallback
place_with_fallback(ords, intent, fallback_strategy, out, t) ==
    LET sub ==
          IF fallback_strategy = "opg_bracket"
          THEN submit_bracket_order(ords, intent.symbol, intent.qty, "buy",
                   intent.entry.type, "opg", intent.entry.limit_price,
                   intent.bracket.stop_loss, intent.bracket.take_profit,
                   intent.client_order_id, TRUE, out, t)
          ELSE IF fallback_strategy = "opg_then_oco"
          THEN IF intent.entry.type = "limit"
               THEN submit_opg_entry(ords, intent.symbol, intent.qty,
                        intent.entry.limit_price, intent.client_order_id, out, t)
               ELSE submit_bracket_order(ords, intent.symbol, intent.qty, "buy",
                        "market", "opg", NoPrice,
                        intent.bracket.stop_loss, intent.bracket.take_profit,
                        intent.client_order_id, TRUE, out, t)
          ELSE submit_bracket_order(ords, intent.symbol, intent.qty, "buy",
                   intent.entry.type, "day", intent.entry.limit_price,
                   intent.bracket.stop_loss, intent.bracket.take_profit,
                   intent.client_order_id, FALSE, out, t)
    IN [orders |-> sub.orders,
        posts |-> sub.posts,
        result |-> [symbol |-> intent.symbol,
                    client_order_id |-> intent.client_order_id,
                    strategy_used |-> fallback_strategy,
                    success |-> ~sub.raised,
                    order_id |-> sub.order.id,
                    error |-> sub.raised,
                    pending_oco |-> ~sub.raised /\ fallback_strategy = "opg_then_oco"]]

\* executor.py place_orders, lines 180-191: the strategy of the batch
has_market_orders(intents) ==
    \E i \in 1..Len(intents) : intents[i].entry.open_only = FALSE

\* alpaca_adapter.py supports_opg_bracket: the cached answer, else False
supports_opg_bracket(cache) == IF cache # "None" THEN cache = "True" ELSE FALSE
\* ... and the cache it leaves behind (self._supports_opg_bracket = False)
supports_opg_bracket_cache(cache) == IF cache # "None" THEN cache ELSE "False"

\* the strategy choice with the open_only test inverted
choose_strategy_inverted(intents, cache) ==
    IF ~has_market_orders(intents) THEN "day_bracket"
    ELSE IF supports_opg_bracket(cache) THEN "opg_bracket"
    ELSE "opg_then_oco"

choose_strategy(intents, cache) ==
    IF has_market_orders(intents) THEN "day_bracket"
    ELSE IF supports_opg_bracket(cache) THEN "opg_bracket"
    ELSE "opg_then_oco"

\* executor.py place_orders, lines 195-223: one iteration of the loop
place_one(acc, intent, fallback_strategy, out, t) ==
    IF ~ensure_not_already_placed(acc.orders, intent.client_order_id, out)
    THEN [acc EXCEPT !.skipped = Append(@, [symbol |-> intent.symbol,
                                            reason |-> "duplicate",
                                            client_order_id |-> intent.client_order_id])]
    ELSE LET r == place_with_fallback(acc.orders, intent, fallback_strategy, out, t)
         IN IF r.result.success
            THEN [acc EXCEPT !.orders = r.orders,
                             !.posts = @ + r.posts,
                             !.placed = Append(@, [symbol |-> r.result.symbol,
                                                   order_id |-> r.result.order_id,
                                                   client_order_id |-> r.result.client_order_id,
                                                   strategy |-> r.result.strategy_used,
                                                   pending_oco |-> r.result.pending_oco])]
            ELSE [acc EXCEPT !.orders = r.orders,
                             !.posts = @ + r.posts,
                             !.errors = Append(@, [symbol |-> r.result.symbol,
                                                   error |-> "failed",
                                                   client_order_id |-> r.result.client_order_id])]

\* the loop made batch-fatal: it stops at the first failed placement
RECURSIVE place_loop_fatal(_, _, _, _, _, _)
place_loop_fatal(i, intents, fallback_strategy, outs, acc, t) ==
    IF i > Len(intents) \/ acc.errors # <<>> THEN acc
    ELSE place_loop_fatal(i + 1, intents, fallback_strategy, outs,
                          place_one(acc, intents[i], fallback_strategy, outs[i], t), t)

RECURSIVE place_loop(_, _, _, _, _, _)
place_loop(i, intents, fallback_strategy, outs, acc, t) ==
    IF i > Len(intents) THEN acc
    ELSE place_loop(i + 1, intents, fallback_strategy, outs,
                    place_one(acc, intents[i], fallback_strategy, outs[i], t), t)

\* executor.py place_orders
place_orders(ords, intents, run_id, dry_run, cache, outs, t) ==
    IF dry_run
    THEN [orders |-> ords, posts |-> 0, strategy |-> "none",
          placed |-> [i \in 1..Len(intents) |->
                        [symbol |-> intents[i].symbol,
                         qty |-> intents[i].qty,
                         client_order_id |-> intents[i].client_order_id,
                         dry_run |-> TRUE]],
          skipped |-> <<>>, errors |-> <<>>]
    ELSE [place_loop(1, intents, choose_strategy(intents, cache), outs,
                     [orders |-> ords, posts |-> 0, strategy |-> "none",
                      placed |-> <<>>, skipped |-> <<>>, errors |-> <<>>], t)
          EXCEPT !.strategy = choose_strategy(intents, cache)]

\* -------------------------------------------------------- reconciliation
\* reconciliation.py morning_reconcile, lines 52-69: the open opening-auction
\* orders older than the threshold
hours_old(o, as_of) == as_of - o.created_at
StaleOpg(ords, as_of) ==
    {i \in 1..Len(ords) : /\ IsOpen(ords[i])
                          /\ ords[i].time_in_force = "opg"
                          /\ hours_old(ords[i], as_of) > StaleHours}

\* line 59-60: created_at is parsed from the broker's string; with a trailing
\* 'Z' it is tz-aware, as_of (datetime.now()) is naive, and the subtraction
\* raises TypeError outside every try block
AgeRaises(ords, aware) ==
    aware /\ \E i \in 1..Len(ords) : IsOpen(ords[i]) /\ ords[i].time_in_force = "opg"

CancelOrders(ords, ids) ==
    [i \in 1..Len(ords) |-> IF i \in ids THEN [ords[i] EXCEPT !.status = "canceled"]
                            ELSE ords[i]]

\* the first intent of the day's intent file with this symbol, 0 when none
FirstIntent(intents, symbol) ==
    LET hits == {i \in 1..Len(intents) : intents[i].symbol = symbol}
    IN IF hits = {} THEN 0 ELSE CHOOSE i \in hits : \A j \in hits : i <= j

\* morning_reconcile, lines 73-109: one placed order of the placement manifest
reconcile_one(acc, placed_order, intents_dir, as_of, fill_out, oco_out) ==
    IF ~placed_order.pending_oco THEN acc
    ELSE LET fill == check_order_fill(acc.orders, placed_order.order_id, fill_out)
             seen == [acc EXCEPT !.examined = @ \cup {placed_order.order_id},
                                 !.fills = Append(@, [order_id |-> placed_order.order_id,
                                                      symbol |-> placed_order.symbol,
                                                      is_filled |-> fill.is_filled,
                                                      filled_qty |-> fill.filled_qty])]
         IN IF ~(fill.is_filled /\ fill.filled_qty # 0) THEN seen
            ELSE IF ~Exists(intents_dir, DateOf(as_of)) THEN seen
            ELSE LET k == FirstIntent(intents_dir[DateOf(as_of)], placed_order.symbol)
                 IN IF k = 0 THEN seen
                    ELSE LET bracket == intents_dir[DateOf(as_of)][k].bracket
                             sub == submit_oco_stops(seen.orders, placed_order.symbol,
                                        fill.filled_qty, bracket.stop_loss,
                                        bracket.take_profit, placed_order.order_id,
                                        oco_out, as_of)
                             sent == [seen EXCEPT
                                 !.orders = sub.orders,
                                 !.oco_sent = Append(@, [symbol |-> placed_order.symbol,
                                                         qty |-> fill.filled_qty,
                                                         stop_price |-> bracket.stop_loss,
                                                         target_price |-> bracket.take_profit,
                                                         parent_id |-> placed_order.order_id])]
                         IN IF sub.raised
                            THEN [sent EXCEPT !.errors = Append(@, <<"OCO failed", placed_order.symbol>>)]
                            ELSE [sent EXCEPT !.oco_placed = @ + 1]

RECURSIVE reconcile_loop(_, _, _, _, _, _, _)
reconcile_loop(i, placed, intents_dir, as_of, fill_outs, oco_outs, acc) ==
    IF i > Len(placed) THEN acc
    ELSE reconcile_loop(i + 1, placed, intents_dir, as_of, fill_outs, oco_outs,
                        reconcile_one(acc, placed[i], intents_dir, as_of,
                                      fill_outs[i], oco_outs[i]))

\* errors of the cancel loop, in the order of the open orders
RECURSIVE cancel_errors(_, _, _)
cancel_errors(ords, i, failed) ==
    IF i > Len(ords) THEN <<>>
    ELSE IF i \in failed THEN <<<<"Cancel failed", ords[i].symbol>>>> \o cancel_errors(ords, i + 1, failed)
    ELSE cancel_errors(ords, i + 1, failed)

\* reconciliation.py morning_reconcile; del_failed = the DELETE requests that
\* fail, fill_outs / oco_outs = the outcome of each fill check and OCO write
morning_reconcile(ords, run_id, as_of, placement_dir, intents_dir, aware, del_failed, fill_outs, oco_outs) ==
    LET stale == StaleOpg(ords, as_of)
        start == [orders |-> CancelOrders(ords, stale \ del_failed),
                  crashed |-> FALSE,
                  run_id |-> run_id,
                  as_of |-> as_of,
                  opg_cancelled |-> Cardinality(stale \ del_failed),
                  oco_placed |-> 0,
                  partial_handled |-> 0,
                  errors |-> cancel_errors(ords, 1, stale \cap del_failed),
                  cancels_sent |-> stale,
                  examined |-> {},
                  fills |-> <<>>,
                  oco_sent |-> <<>>]
        placed == IF Exists(placement_dir, run_id) THEN placement_dir[run_id].placed
                  ELSE <<>>
    IN IF AgeRaises(ords, aware)
       THEN [start EXCEPT !.orders = ords, !.crashed = TRUE, !.opg_cancelled = 0,
                          !.errors = <<>>, !.cancels_sent = {}]
       ELSE reconcile_loop(1, placed, intents_dir, as_of, fill_outs, oco_outs, start)

\* -------------------------------------------------------- intent builder
\* Units: equity in dollars; prices, ATR and notionals in cents; risk_pct in
\* hundredths of a percent; stop_mult / target_mult in tenths; max_pos_pct and
\* max_gross_exposure_pct in percent; scores in points.

\* paper_engine.py filter_candidates: the rows that stay, in their order.
\* earnings_map gives the days until the earnings date of a symbol.
filter_candidates(scan_df, min_score, exclusions) ==
    LET by_score == SelectSeq(scan_df, LAMBDA r : r.score >= min_score)
        by_pattern ==
            IF exclusions.leverage_etf /\ exclusions.leverage_patterns # {}
            THEN SelectSeq(by_score, LAMBDA r : r.symbol \notin exclusions.leverage_patterns)
            ELSE by_score
        has_upcoming_earnings(symbol) ==
            /\ symbol \in DOMAIN exclusions.earnings_map
            /\ 0 <= exclusions.earnings_map[symbol]
            /\ exclusions.earnings_map[symbol] <= exclusions.earnings_within_days
    IN IF DOMAIN exclusions.earnings_map # {} /\ exclusions.earnings_within_days # 0
       THEN SelectSeq(by_pattern, LAMBDA r : ~has_upcoming_earnings(r.symbol))
       ELSE by_pattern

\* paper_engine.py apply_price_guards
apply_price_guards(df, min_price, allow_pennies) ==
    IF df = <<>> \/ allow_pennies THEN df
    ELSE SelectSeq(df, LAMBDA r : r.close >= min_price)

\* sorted(..., reverse=True) / sort_values(ascending=False): descending by
\* keys[i], rows with equal keys keep their order
SortDesc(s, keys) ==
    LET before(i) == Cardinality({j \in 1..Len(s) :
                        keys[j] > keys[i] \/ (keys[j] = keys[i] /\ j < i)})
    IN [p \in 1..Len(s) |-> s[CHOOSE i \in 1..Len(s) : before(i) = p - 1]]

\* the sizing that keeps the risk-based count when it exceeds the position cap
compute_position_size_uncapped(equity, entry_price, atr, stop_mult, risk_pct, min_notional, max_pos_pct) ==
    LET shares == IF atr * stop_mult > 0
                  THEN (equity * risk_pct) \div (10 * atr * stop_mult)
                  ELSE 0
    IN IF shares < 1 THEN 0
       ELSE IF shares * entry_price < min_notional THEN 0
       ELSE shares

\* paper_engine.py compute_position_size
compute_position_size(equity, entry_price, atr, stop_mult, risk_pct, min_notional, max_pos_pct) ==
    LET risk_per_share == atr * stop_mult
        shares == IF risk_per_share > 0
                  THEN (equity * risk_pct) \div (10 * risk_per_share)
                  ELSE 0
        max_position_value == equity * max_pos_pct
        reduced == max_position_value \div entry_price
    IN IF shares < 1 THEN 0
       ELSE IF shares * entry_price < min_notional THEN 0
       ELSE IF shares * entry_price > max_position_value
            THEN IF reduced * entry_price < min_notional THEN 0 ELSE reduced
       ELSE shares

\* the low-price guard with the cap of the stocks under $1 for those under $5
compute_safe_position_size_low_cap(equity, price, atr, stop_mult, risk_pct, min_notional, max_pos_pct) ==
    LET shares == compute_position_size(equity, price, atr, stop_mult, risk_pct,
                                        min_notional, max_pos_pct)
    IN IF price < 500 /\ shares > 5000 THEN 2000
       ELSE IF price < 100 /\ shares > 2000 THEN 2000
       ELSE shares

\* paper_engine.py compute_safe_position_size; max_pos_pct is the decimal
\* fraction times 100
compute_safe_position_size(equity, price, atr, stop_mult, risk_pct, min_notional, max_pos_pct) ==
    LET shares == compute_position_size(equity, price, atr, stop_mult, risk_pct,
                                        min_notional, max_pos_pct)
    IN IF price < 500 /\ shares > 5000 THEN 5000
       ELSE IF price < 100 /\ shares > 2000 THEN 2000
       ELSE shares

\* enforce_portfolio_caps, line 308: limit_price or close
position_value(intent) ==
    intent.qty * (IF intent.entry.limit_price # NoPrice THEN intent.entry.limit_price
                  ELSE intent.meta.close)

\* the loop that ignores the exposure limit
RECURSIVE caps_loop_count_only(_, _, _, _, _, _)
caps_loop_count_only(i, sorted_intents, selected, total_exposure, max_symbols, max_exposure) ==
    IF i > Len(sorted_intents) THEN selected
    ELSE IF Len(selected) >= max_symbols THEN selected
    ELSE caps_loop_count_only(i + 1, sorted_intents, Append(selected, sorted_intents[i]),
                              total_exposure + position_value(sorted_intents[i]),
                              max_symbols, max_exposure)

\* enforce_portfolio_caps, lines 301-316: break on the symbol count, continue
\* past an intent that does not fit the exposure
RECURSIVE caps_loop(_, _, _, _, _, _)
caps_loop(i, sorted_intents, selected, total_exposure, max_symbols, max_exposure) ==
    IF i > Len(sorted_intents) THEN selected
    ELSE IF Len(selected) >= max_symbols THEN selected
    ELSE IF total_exposure + position_value(sorted_intents[i]) > max_exposure
    THEN caps_loop(i + 1, sorted_intents, selected, total_exposure,
                   max_symbols, max_exposure)
    ELSE caps_loop(i + 1, sorted_intents, Append(selected, sorted_intents[i]),
                   total_exposure + position_value(sorted_intents[i]),
                   max_symbols, max_exposure)

\* paper_engine.py enforce_portfolio_caps
enforce_portfolio_caps(intents, account_equity, max_symbols, max_gross_exposure_pct) ==
    IF intents = <<>> THEN intents
    ELSE caps_loop(1, SortDesc(intents, [i \in 1..Len(intents) |-> intents[i].meta.score]),
                   <<>>, 0, max_symbols, account_equity * max_gross_exposure_pct)

\* build_order_intents, lines 444-456: the quantity of one candidate row
row_qty(row, config, account_equity) ==
    compute_safe_position_size(account_equity, row.close, row.atr20,
                               config.risk.stop_atr_mult,
                               config.sizing.risk_per_trade_pct,
                               config.sizing.min_notional,
                               config.sizing.max_pos_pct_of_equity)

\* row_intent with the quantity made part of the client_order_id
row_intent_qty_in_id(row, config, account_equity, as_of) ==
    LET entry_leg == construct_entry_leg(config.order.entry_style, row.close,
                                         config.order.price_buffer_bps)
        entry_price == IF entry_leg.limit_price # NoPrice THEN entry_leg.limit_price
                       ELSE row.close
    IN [run_id |-> generate_run_id(as_of),
        symbol |-> row.symbol,
        side |-> "buy",
        qty |-> row_qty(row, config, account_equity),
        entry |-> entry_leg,
        bracket |-> construct_bracket_levels(entry_price, row.atr20,
                                             config.risk.stop_atr_mult,
                                             config.risk.target_atr_mult),
        meta |-> [score |-> row.score, atr |-> row.atr20, rsi14 |-> row.rsi14,
                  close |-> row.close],
        client_order_id |-> <<generate_run_id(as_of), row.symbol, as_of,
                            row_qty(row, config, account_equity)>>]

\* build_order_intents, lines 462-498: the intent of one candidate row
row_intent(row, config, account_equity, as_of) ==
    LET entry_leg == construct_entry_leg(config.order.entry_style, row.close,
                                         config.order.price_buffer_bps)
        entry_price == IF entry_leg.limit_price # NoPrice THEN entry_leg.limit_price
                       ELSE row.close
    IN [run_id |-> generate_run_id(as_of),
        symbol |-> row.symbol,
        side |-> "buy",
        qty |-> row_qty(row, config, account_equity),
        entry |-> entry_leg,
        bracket |-> construct_bracket_levels(entry_price, row.atr20,
                                             config.risk.stop_atr_mult,
                                             config.risk.target_atr_mult),
        meta |-> [score |-> row.score, atr |-> row.atr20, rsi14 |-> row.rsi14,
                  close |-> row.close],
        client_order_id |-> <<generate_run_id(as_of), row.symbol, as_of>>]

\* build_order_intents, lines 406-422: filter, price guard, sort
build_filtered(scan_df, config) ==
    LET filtered == apply_price_guards(
                        filter_candidates(scan_df, config.entry.min_score,
                                          config.exclusions),
                        config.sizing.min_price, config.sizing.allow_penny_stocks)
    IN IF config.entry.sort_by = "score"
       THEN SortDesc(filtered, [i \in 1..Len(filtered) |-> filtered[i].score])
       ELSE IF config.entry.sort_by = "rsi_room"
       THEN SortDesc(filtered, [i \in 1..Len(filtered) |-> 70 - filtered[i].rsi14])
       ELSE filtered

\* the builder that does not look at the open positions
build_order_intents_ignoring_positions(scan_df, config, account_equity, open_positions, as_of) ==
    LET filtered == build_filtered(scan_df, config)
        sized == SelectSeq(filtered, LAMBDA r : row_qty(r, config, account_equity) # 0)
        intents == [i \in 1..Len(sized) |->
                       row_intent(sized[i], config, account_equity, as_of)]
        final_intents == enforce_portfolio_caps(intents, account_equity,
                             config.entry.max_symbols,
                             config.sizing.max_gross_exposure_pct)
    IN [intents |-> final_intents,
        before_caps |-> intents,
        summary |-> [candidates |-> Len(scan_df),
                     filtered |-> Len(filtered),
                     selected |-> Len(final_intents),
                     skipped |-> [sizing_failed |-> Len(filtered) - Len(sized),
                                  duplicate |-> 0],
                     run_id |-> generate_run_id(as_of),
                     as_of |-> as_of]]

\* paper_engine.py build_order_intents; every row has its close and atr20
\* columns.  open_positions is the set of the symbols held.
build_order_intents(scan_df, config, account_equity, open_positions, as_of) ==
    LET filtered == build_filtered(scan_df, config)
        fresh == SelectSeq(filtered, LAMBDA r : r.symbol \notin open_positions)
        sized == SelectSeq(fresh, LAMBDA r : row_qty(r, config, account_equity) # 0)
        intents == [i \in 1..Len(sized) |->
                       row_intent(sized[i], config, account_equity, as_of)]
        final_intents == enforce_portfolio_caps(intents, account_equity,
                             config.entry.max_symbols,
                             config.sizing.max_gross_exposure_pct)
    IN [intents |-> final_intents,
        before_caps |-> intents,
        summary |-> [candidates |-> Len(scan_df),
                     filtered |-> Len(filtered),
                     selected |-> Len(final_intents),
                     skipped |-> [sizing_failed |-> Len(fresh) - Len(sized),
                                  duplicate |-> Len(filtered) - Len(fresh)],
                     run_id |-> generate_run_id(as_of),
                     as_of |-> as_of]]

\* --------------------------------------------------------- scoring engine
\* A bar sequence is represented by its length and by what the indicator code
\* derives from it: today's dollar volume (millions), whether the volume of
\* the last three sessions is zero, the ATR ratio (1/10000), close and SMA-50
\* (cents), the pullback (1/100 percent) and the four smoothed percentiles
\* <<pullback, volume, trend, rsi>> (points).  Scores are in 1/100 points.

\* scoring.py:24 MIN_BARS_REQUIRED, indicators.py:209
MIN_BARS_REQUIRED == 250
IndicatorBars == 366
\* gates.py GATES_V2
MinAtrRatio == 50
MaxAtrRatio == 800
MinPullback == 500
MaxPullback == 2000
MinScore == 3000
MaxScore == 7500
MinDollarVolume == 20

NoReason == "none"
NoScore == -1

\* the gates with open intervals
evaluate_gates_exclusive(atr_ratio, close_t, sma50_t_minus_1, pullback_pct) ==
    IF ~(MinAtrRatio < atr_ratio /\ atr_ratio < MaxAtrRatio)
    THEN [pass |-> FALSE, reason |-> "gate_atr_ratio"]
    ELSE IF ~(close_t > sma50_t_minus_1)
    THEN [pass |-> FALSE, reason |-> "gate_trend_filter"]
    ELSE IF ~(MinPullback < pullback_pct /\ pullback_pct < MaxPullback)
    THEN [pass |-> FALSE, reason |-> "gate_pullback_band"]
    ELSE [pass |-> TRUE, reason |-> NoReason]

\* gates.py evaluate_gates
evaluate_gates(atr_ratio, close_t, sma50_t_minus_1, pullback_pct) ==
    IF ~(MinAtrRatio <= atr_ratio /\ atr_ratio <= MaxAtrRatio)
    THEN [pass |-> FALSE, reason |-> "gate_atr_ratio"]
    ELSE IF ~(close_t >= sma50_t_minus_1)
    THEN [pass |-> FALSE, reason |-> "gate_trend_filter"]
    ELSE IF ~(MinPullback <= pullback_pct /\ pullback_pct <= MaxPullback)
    THEN [pass |-> FALSE, reason |-> "gate_pullback_band"]
    ELSE [pass |-> TRUE, reason |-> NoReason]

\* the band check without its upper end
validate_score_range_no_max(score) ==
    IF score < MinScore THEN [pass |-> FALSE, reason |-> "score_too_low"]
    ELSE [pass |-> TRUE, reason |-> NoReason]

\* gates.py validate_score_range
validate_score_range(score) ==
    IF score < MinScore THEN [pass |-> FALSE, reason |-> "score_too_low"]
    ELSE IF score > MaxScore THEN [pass |-> FALSE, reason |-> "score_too_high"]
    ELSE [pass |-> TRUE, reason |-> NoReason]

\* gates.py validate_dollar_volume
validate_dollar_volume(dollar_volume) ==
    IF dollar_volume < MinDollarVolume
    THEN [pass |-> FALSE, reason |-> "insufficient_dollar_volume"]
    ELSE [pass |-> TRUE, reason |-> NoReason]

\* market_regime.py should_trade_in_regime
should_trade_in_regime(regime) ==
    IF regime.volatility_regime = "extreme"
    THEN [trade |-> FALSE, reason |-> "extreme_volatility"]
    ELSE IF regime.trend_regime = "bear" /\ regime.volatility_regime = "high"
    THEN [trade |-> FALSE, reason |-> "bear_high_vol"]
    ELSE IF regime.trend_regime = "bear"
    THEN [trade |-> TRUE, reason |-> "bear_selective"]
    ELSE [trade |-> TRUE, reason |-> "normal_trading"]

\* market_regime.py get_regime_adjusted_weights applied to the base weights
\* 0.35 / 0.30 / 0.20 / 0.15, in thousandths, before the division by their sum
get_regime_adjusted_weights(regime) ==
    IF regime.trend_regime = "bear"
    THEN [pullback |-> 280, volume |-> 360, trend |-> 300, rsi |-> 120]
    ELSE IF regime.volatility_regime \in {"high", "extreme"}
    THEN [pullback |-> 450, volume |-> 240, trend |-> 160, rsi |-> 225]
    ELSE [pullback |-> 350, volume |-> 300, trend |-> 200, rsi |-> 150]

\* scoring.py:325-346: round(composite, 2) with the normalised weights
composite_score(pct, w) ==
    RoundDiv(100 * (pct[1] * w.pullback + pct[2] * w.volume
                      + pct[3] * w.trend + pct[4] * w.rsi),
             w.pullback + w.volume + w.trend + w.rsi)

\* market_regime.py MarketRegimeDetector.get_market_regime: the cached regime
\* of today while it has not expired, else what the data source gives now
NoCache == [date |-> -1, expiry |-> 0,
            regime |-> [trend_regime |-> "neutral", volatility_regime |-> "medium"]]
CacheHit(cache, t) == cache.date = DateOf(t) /\ t < cache.expiry
get_market_regime(cache, source, t) ==
    IF CacheHit(cache, t) THEN cache.regime ELSE source
get_market_regime_cache(cache, source, t) ==
    IF CacheHit(cache, t) THEN cache
    ELSE [date |-> DateOf(t), expiry |-> t + 1, regime |-> source]

\* scoring.py calculate_raw_features: raises when the indicators refuse the
\* length (indicators.py:209-210) or when the mean volume of the last three
\* sessions is zero (math.log(0), scoring.py:95)
RawFeaturesRaise(bars) == bars.n < IndicatorBars \/ bars.zero_late_volume

\* scoring.py calculate_score_v2; regime = get_market_regime(); computed is
\* components["score"], the rounded composite before the band check
calculate_score_v2(bars, regime) ==
    IF bars.n < MIN_BARS_REQUIRED
    THEN [raised |-> FALSE, score |-> NoScore, reason |-> "insufficient_history",
          used_regime |-> FALSE, computed |-> NoScore]
    ELSE IF RawFeaturesRaise(bars)
    THEN [raised |-> TRUE, score |-> NoScore, reason |-> NoReason,
          used_regime |-> FALSE, computed |-> NoScore]
    ELSE IF bars.dollar_volume < MinDollarVolume
    THEN [raised |-> FALSE, score |-> NoScore, reason |-> "insufficient_liquidity",
          used_regime |-> FALSE, computed |-> NoScore]
    ELSE IF ~evaluate_gates(bars.atr_ratio, bars.close_t, bars.sma50, bars.pullback_raw).pass
    THEN [raised |-> FALSE, score |-> NoScore,
          reason |-> evaluate_gates(bars.atr_ratio, bars.close_t, bars.sma50,
                                    bars.pullback_raw).reason,
          used_regime |-> FALSE, computed |-> NoScore]
    ELSE IF ~should_trade_in_regime(regime).trade
            /\ should_trade_in_regime(regime).reason = "extreme_volatility"
    THEN [raised |-> FALSE, score |-> NoScore, reason |-> "extreme_volatility",
          used_regime |-> TRUE, computed |-> NoScore]
    ELSE LET score == composite_score(bars.pct, get_regime_adjusted_weights(regime))
         IN IF ~validate_dollar_volume(bars.dollar_volume).pass
            THEN [raised |-> FALSE, score |-> NoScore,
                  reason |-> validate_dollar_volume(bars.dollar_volume).reason,
                  used_regime |-> TRUE, computed |-> score]
            ELSE IF ~validate_score_range(score).pass
            THEN [raised |-> FALSE, score |-> NoScore,
                  reason |-> validate_score_range(score).reason, used_regime |-> TRUE,
                  computed |-> score]
            ELSE [raised |-> FALSE, score |-> score, reason |-> NoReason,
                  used_regime |-> TRUE, computed |-> score]

\* ------------------------------------------ inputs of the scoring engine
BaseBars == [n |-> 400, dollar_volume |-> 50, zero_late_volume |-> FALSE,
             atr_ratio |-> 200, close_t |-> 10000, sma50 |-> 9800,
             pullback_raw |-> 1000, pct |-> <<60, 50, 40, 50>>]

BarSeqs ==
    {BaseBars,
     [BaseBars EXCEPT !.n = 100],
     [BaseBars EXCEPT !.n = 249],
     [BaseBars EXCEPT !.n = 250],
     [BaseBars EXCEPT !.n = 300],
     [BaseBars EXCEPT !.n = 366],
     [BaseBars EXCEPT !.dollar_volume = 10],
     [BaseBars EXCEPT !.dollar_volume = 0, !.zero_late_volume = TRUE],
     [BaseBars EXCEPT !.atr_ratio = 30],
     [BaseBars EXCEPT !.close_t = 9700],
     [BaseBars EXCEPT !.pullback_raw = 300],
     [BaseBars EXCEPT !.pct = <<10, 10, 10, 10>>],
     [BaseBars EXCEPT !.pct = <<30, 30, 30, 30>>],
     [BaseBars EXCEPT !.pct = <<75, 75, 75, 75>>],
     [BaseBars EXCEPT !.pct = <<95, 95, 95, 95>>],
     [BaseBars EXCEPT !.pct = <<90, 60, 70, 90>>]}

\* what the SPY / VIX bars of the data service amount to; no credentials or a
\* failed request give neutral / medium
Regimes == [trend_regime : {"neutral", "bear"},
            volatility_regime : {"medium", "high", "extreme"}]

GateAtrRatios == {49, 50, 51, 200, 799, 800, 801}
GateCloses == {9999, 10000, 10001}
GatePullbacks == {499, 500, 501, 1000, 1999, 2000, 2001}

NoGates == [called |-> FALSE, atr_ratio |-> 0, close_t |-> 0, sma50_t_minus_1 |-> 0,
            pullback_pct |-> 0, pass |-> FALSE, reason |-> NoReason]
NoScoreCall == [called |-> FALSE, bars |-> BaseBars, raised |-> FALSE,
                score |-> NoScore, reason |-> NoReason, computed |-> NoScore]

\* ------------------------------------------- inputs of the intent builder
MaxRows == 3

\* rows of the scanner's DataFrame: symbol, score, close, atr20, rsi14
ScanRows ==
    {[symbol |-> "A", score |-> 70, close |-> 10000, atr20 |-> 200, rsi14 |-> 40],
     [symbol |-> "B", score |-> 60, close |-> 5000, atr20 |-> 50, rsi14 |-> 55],
     [symbol |-> "C", score |-> 50, close |-> 2000, atr20 |-> 100, rsi14 |-> 30],
     [symbol |-> "D", score |-> 40, close |-> 3000, atr20 |-> 60, rsi14 |-> 45],
     [symbol |-> "P", score |-> 55, close |-> 150, atr20 |-> 4, rsi14 |-> 35],
     [symbol |-> "L", score |-> 65, close |-> 4000, atr20 |-> 80, rsi14 |-> 50],
     [symbol |-> "Z", score |-> 58, close |-> 2500, atr20 |-> 0, rsi14 |-> 60]}

ScanFrames == UNION {[1..n -> ScanRows] : n \in 0..MaxRows}

\* config.yaml, section paper_trading
BaseConfig ==
    [entry |-> [min_score |-> 45, max_symbols |-> 3, sort_by |-> "score"],
     sizing |-> [min_price |-> 200, allow_penny_stocks |-> FALSE,
                 risk_per_trade_pct |-> 50, min_notional |-> 20000,
                 max_pos_pct_of_equity |-> 10, max_gross_exposure_pct |-> 18],
     risk |-> [stop_atr_mult |-> 15, target_atr_mult |-> 30],
     order |-> [entry_style |-> "open", price_buffer_bps |-> 10],
     exclusions |-> [leverage_etf |-> TRUE, leverage_patterns |-> {"L"},
                     earnings_map |-> ("Z" :> 2 @@ "C" :> 9),
                     earnings_within_days |-> 3]]

Configs ==
    {BaseConfig,
     [BaseConfig EXCEPT !.sizing.allow_penny_stocks = TRUE],
     [BaseConfig EXCEPT !.exclusions.leverage_etf = FALSE],
     [BaseConfig EXCEPT !.exclusions.earnings_within_days = 0],
     [BaseConfig EXCEPT !.entry.max_symbols = 1],
     [BaseConfig EXCEPT !.sizing.max_gross_exposure_pct = 100],
     [BaseConfig EXCEPT !.order.entry_style = "market-now"],
     [BaseConfig EXCEPT !.entry.sort_by = "rsi_room"]}

Equities == {10000, 30000, 50000}
Holdings == {{}, {"B"}}

NoSizing == [called |-> FALSE, equity |-> 0, price |-> 0, atr |-> 0, stop_mult |-> 0,
             risk_pct |-> 0, min_notional |-> 0, max_pos_pct |-> 0, sized |-> 0,
             shares |-> 0]
NoCaps == [called |-> FALSE, intents |-> <<>>, account_equity |-> 0, max_symbols |-> 0,
           max_gross_exposure_pct |-> 0, selected |-> <<>>]
NoBuild == [called |-> FALSE, scan_df |-> <<>>, config |-> BaseConfig,
            account_equity |-> 0, open_positions |-> {}, as_of |-> 0,
            intents |-> <<>>, before_caps |-> <<>>, filtered |-> 0]

\* ------------------------------------- calls that have not been made
NoRun == 0
NoStats == [reason \in {"timeout", "no_data", "low_liquidity"} |-> 0]
NoScan == [returned |-> FALSE, results |-> <<>>, filter_stats |-> NoStats, tallied |-> <<>>]
NoFetch == [called |-> FALSE, responses |-> <<>>, returned |-> "", error |-> "", attempts |-> 0, sleeps |-> <<>>]
Threads == {1, 2}
IdleCaller == [pc |-> "idle", op |-> "", n |-> 0, wake |-> 0, result |-> ""]
NoGrant == [thread |-> 0, n |-> 0, before |-> 0, after |-> 0]
CacheSymbols == {"A", "B"}
CachePaths == {"cache", "tmp"} \X CacheSymbols
MaxWrites == 3
PartialFile == -1
IdleWriter == [pc |-> "idle", symbol |-> "", lock |-> 0, content |-> 0, failed |-> FALSE]
NoWrite == [thread |-> 0, symbol |-> "", result |-> "", temp_left |-> FALSE, unlink_failed |-> FALSE]
NoIndicators == [called |-> FALSE, history_end |-> [c |-> 0, h |-> 0, l |-> 0, v |-> 0],
                 today |-> [c |-> 0, h |-> 0, l |-> 0, v |-> 0],
                 sma50_t_minus_1 |-> 0, high20_t_minus_1 |-> 0,
                 vol_avg_10_t_minus_1 |-> 0, rsi_raw |-> 0, atr_raw |-> 0]

\* ----------------------------------------------------------- the machine
NoPlace == [called |-> FALSE, dry_run |-> FALSE, run_id |-> <<>>, intents |-> <<>>,
            strategy |-> "none", posts |-> 0, covered |-> FALSE,
            placed |-> <<>>, skipped |-> <<>>, errors |-> <<>>]
NoFallback == [called |-> FALSE, strategy |-> "none", posts |-> 0, success |-> FALSE,
               order_id |-> 0, pending_oco |-> FALSE]
NoRecon == [orders_before |-> <<>>, crashed |-> FALSE, run_id |-> <<>>, as_of |-> 0,
            opg_cancelled |-> 0, oco_placed |-> 0, partial_handled |-> 0,
            errors |-> <<>>, cancels_sent |-> {}, examined |-> {}, fills |-> <<>>,
            oco_sent |-> <<>>]

\* what a scan can rank: the symbols of the universe that pass, in score order
RECURSIVE Pick(_, _)
Pick(keep, i) ==
    IF i > Len(Universe) THEN <<>>
    ELSE IF i \in keep THEN <<Universe[i]>> \o Pick(keep, i + 1)
    ELSE Pick(keep, i + 1)
SymbolLists == {Pick(keep, 1) : keep \in {k \in SUBSET (1..Len(Universe)) :
                                            Cardinality(k) <= MaxIntents}}

Init ==
    /\ now = 0
    /\ utc_suffix \in BOOLEAN
    /\ entry_style \in Styles
    /\ orders = <<>>
    /\ supports_cache = "None"
    /\ intents_files = <<>>
    /\ manifest_files = <<>>
    /\ placement_files = <<>>
    /\ orders_log = <<>>
    /\ place_call = NoPlace
    /\ prev_place = NoPlace
    /\ fallback_call = NoFallback
    /\ recon_call = NoRecon
    /\ last_cmd = "init"
    /\ sizing_call = NoSizing
    /\ prev_sizing = NoSizing
    /\ caps_call = NoCaps
    /\ build_call = NoBuild
    /\ gates_call = NoGates
    /\ score_call = NoScoreCall
    /\ prev_score = NoScoreCall
    /\ regime_source = [trend_regime |-> "neutral", volatility_regime |-> "medium"]
    /\ regime_cache = NoCache
    /\ indicators_call = NoIndicators
    /\ prev_indicators = NoIndicators
    /\ runs = <<>>
    /\ active_run = NoRun
    /\ run_history = <<>>
    /\ scan_tasks = <<>>
    /\ sleepers = {}
    /\ state_moves = {}
    /\ filter_stats = NoStats
    /\ scan_results = <<>>
    /\ futures = <<>>
    /\ next_future = 0
    /\ tallied = <<>>
    /\ scan_return = NoScan
    /\ fetch_call = NoFetch
    /\ tokens = 0
    /\ last_update = 0
    /\ bucket_lock = 0
    /\ bucket_clock = 0
    /\ callers = [t \in Threads |-> IdleCaller]
    /\ bucket_calls = 0
    /\ last_grant = NoGrant
    /\ ledger = [supplied |-> 0, granted |-> 0]
    /\ cache_files = [p \in CachePaths |-> 0]
    /\ cache_locks = [s \in CacheSymbols |-> 0]
    /\ lock_holders = [k \in 1..MaxWrites |-> 0]
    /\ lock_mutex = 0
    /\ writers = [t \in Threads |-> IdleWriter]
    /\ writes_begun = 0
    /\ last_good = [s \in CacheSymbols |-> 0]
    /\ last_write = NoWrite

\* what an operation returned is visible until the next operation runs
Forget ==
    /\ place_call' = NoPlace
    /\ prev_place' = NoPlace
    /\ fallback_call' = NoFallback
    /\ recon_call' = NoRecon

\* time passes
Tick ==
    /\ \E h \in ClockSteps : now + h <= MaxTick * h /\ now' = now + h
    /\ last_cmd' = "tick"
    /\ UNCHANGED engine_vars
    /\ UNCHANGED infra_vars
    /\ Forget
    /\ UNCHANGED <<utc_suffix, entry_style, orders, supports_cache, intents_files, manifest_files,
                   placement_files, orders_log>>

\* the broker fills a resting entry order, wholly or in part
BrokerFill ==
    /\ \E i \in 1..Len(orders), q \in 1..4 :
          /\ IsOpen(orders[i]) /\ orders[i].side = "buy"
          /\ q \in {1, orders[i].qty}
          /\ q > orders[i].filled_qty
          /\ orders' = [orders EXCEPT ![i].filled_qty = q,
                                      ![i].status = IF q = orders[i].qty THEN "filled"
                                                    ELSE "partially_filled"]
    /\ last_cmd' = "fill"
    /\ UNCHANGED engine_vars
    /\ UNCHANGED infra_vars
    /\ Forget
    /\ UNCHANGED <<now, utc_suffix, entry_style, supports_cache, intents_files, manifest_files,
                   placement_files, orders_log>>

\* cli/paper.py cmd_scan (not dry-run) with at least one scored candidate: the
\* scanner's ranked symbols and the close are the inputs
CmdScan ==
    /\ \E syms \in SymbolLists, close \in Closes :
          LET today == DateOf(now)
              intents == [i \in 1..Len(syms) |->
                            BuildIntent(today, syms[i], close, 4000 \div close, entry_style)]
          IN /\ intents_files' = WriteFile(intents_files, today, intents)
             /\ manifest_files' = WriteFile(manifest_files, generate_run_id(today),
                                            [run_id |-> generate_run_id(today),
                                             intents |-> intents])
    /\ last_cmd' = "scan"
    /\ UNCHANGED engine_vars
    /\ UNCHANGED infra_vars
    /\ Forget
    /\ UNCHANGED <<now, utc_suffix, entry_style, orders, supports_cache, placement_files,
                   orders_log>>

\* cmd_place(run_id=None)
NoRunArg == <<>>

\* cmd_place, lines 326-353: the intents and the run id the command works on;
\* <<>> when it returns early
PlaceInput(run_arg) ==
    IF run_arg # NoRunArg
    THEN IF Exists(manifest_files, run_arg)
         THEN [run_id |-> run_arg, intents |-> manifest_files[run_arg].intents]
         ELSE [run_id |-> run_arg, intents |-> <<>>]
    ELSE IF Exists(intents_files, DateOf(now))
         THEN [run_id |-> IF intents_files[DateOf(now)] # <<>>
                          THEN intents_files[DateOf(now)][1].run_id
                          ELSE generate_run_id(DateOf(now)),
               intents |-> intents_files[DateOf(now)]]
         ELSE [run_id |-> generate_run_id(DateOf(now)), intents |-> <<>>]

LogEntries(run_id, placed) ==
    [i \in 1..Len(placed) |->
        [run_id |-> run_id, action |-> "placed", symbol |-> placed[i].symbol,
         order_id |-> placed[i].order_id,
         client_order_id |-> placed[i].client_order_id,
         strategy |-> placed[i].strategy, pending_oco |-> placed[i].pending_oco]]

PlaceOutcomes == {"ok", "lookup_fail", "submit_lookup_fail", "reject"}

\* cli/paper.py cmd_place; DryRuns = the values of --dry-run, Outcomes = the
\* outcomes of the broker requests of one intent
Place(DryRuns, Outcomes) ==
    /\ \E run_arg \in {NoRunArg} \cup DOMAIN manifest_files, dry_run \in DryRuns :
          LET inp == PlaceInput(run_arg)
          IN /\ inp.intents # <<>>
             /\ \E outs \in [1..Len(inp.intents) -> Outcomes] :
                   \E r \in {place_orders(orders, inp.intents, inp.run_id, dry_run,
                                           supports_cache, outs, now)} :
                   LET summary == [run_id |-> inp.run_id, placed |-> r.placed,
                                   skipped |-> r.skipped, errors |-> r.errors,
                                   dry_run |-> dry_run]
                   IN /\ dry_run => \A i \in 1..Len(outs) : outs[i] = "ok"
                      /\ Len(r.orders) <= MaxOrders
                      /\ orders' = r.orders
                      /\ supports_cache' =
                            IF dry_run \/ has_market_orders(inp.intents)
                            THEN supports_cache
                            ELSE supports_opg_bracket_cache(supports_cache)
                      /\ placement_files' =
                            IF dry_run THEN placement_files
                            ELSE WriteFile(placement_files, inp.run_id, summary)
                      /\ orders_log' =
                            IF dry_run THEN orders_log
                            ELSE orders_log \o LogEntries(inp.run_id, r.placed)
                      /\ place_call' =
                            [called |-> TRUE, dry_run |-> dry_run, run_id |-> inp.run_id,
                             intents |-> inp.intents, strategy |-> r.strategy,
                             posts |-> r.posts,
                             covered |-> \A i \in 1..Len(inp.intents) :
                                 get_order_by_client_id(r.orders,
                                     inp.intents[i].client_order_id) # NoOrder,
                             placed |-> r.placed, skipped |-> r.skipped,
                             errors |-> r.errors]
                      /\ prev_place' = place_call
    /\ last_cmd' = "place"
    /\ UNCHANGED engine_vars
    /\ UNCHANGED infra_vars
    /\ fallback_call' = NoFallback
    /\ recon_call' = NoRecon
    /\ UNCHANGED <<now, utc_suffix, entry_style, intents_files, manifest_files>>

CmdPlace == Place(BOOLEAN, PlaceOutcomes)

\* cmd_place without --dry-run when the broker answers every request
CmdPlaceOk == Place({FALSE}, {"ok"})

\* trading.place_with_fallback called on its own (it is exported by the
\* package): one persisted intent, any of the three strategies
PlaceWithFallback ==
    /\ \E d \in DOMAIN intents_files, strategy \in Strategies,
          out \in PlaceOutcomes \ {"lookup_fail"} :
          \E k \in 1..Len(intents_files[d]) :
             \E r \in {place_with_fallback(orders, intents_files[d][k], strategy, out, now)} :
                /\ Len(r.orders) <= MaxOrders
                /\ orders' = r.orders
                /\ fallback_call' = [called |-> TRUE, strategy |-> strategy,
                                     posts |-> r.posts,
                                     success |-> r.result.success,
                                     order_id |-> r.result.order_id,
                                     pending_oco |-> r.result.pending_oco]
    /\ last_cmd' = "place_with_fallback"
    /\ UNCHANGED engine_vars
    /\ UNCHANGED infra_vars
    /\ place_call' = NoPlace
    /\ prev_place' = NoPlace
    /\ recon_call' = NoRecon
    /\ UNCHANGED <<now, utc_suffix, entry_style, supports_cache, intents_files, manifest_files,
                   placement_files, orders_log>>

\* cli/paper.py cmd_reconcile: run id and as_of are both taken from today
CmdReconcile ==
    /\ LET run_id == generate_run_id(DateOf(now))
           n == IF Exists(placement_files, run_id)
                THEN Len(placement_files[run_id].placed) ELSE 0
       IN \E del_failed \in SUBSET StaleOpg(orders, now),
             fill_outs \in [1..n -> {"ok", "get_fail"}],
             oco_outs \in [1..n -> {"ok", "reject"}] :
             \E r \in {morning_reconcile(orders, run_id, now, placement_files,
                                          intents_files, utc_suffix, del_failed,
                                          fill_outs, oco_outs)} :
                /\ Len(r.orders) <= MaxOrders
                /\ orders' = r.orders
                /\ recon_call' = [orders_before |-> orders, crashed |-> r.crashed,
                                  run_id |-> r.run_id, as_of |-> r.as_of,
                                  opg_cancelled |-> r.opg_cancelled,
                                  oco_placed |-> r.oco_placed,
                                  partial_handled |-> r.partial_handled,
                                  errors |-> r.errors,
                                  cancels_sent |-> r.cancels_sent,
                                  examined |-> r.examined, fills |-> r.fills,
                                  oco_sent |-> r.oco_sent]
    /\ last_cmd' = "reconcile"
    /\ UNCHANGED engine_vars
    /\ UNCHANGED infra_vars
    /\ place_call' = NoPlace
    /\ prev_place' = NoPlace
    /\ fallback_call' = NoFallback
    /\ UNCHANGED <<now, utc_suffix, entry_style, supports_cache, intents_files, manifest_files,
                   placement_files, orders_log>>

Next ==
    \/ Tick
    \/ BrokerFill
    \/ CmdScan
    \/ CmdPlace
    \/ PlaceWithFallback
    \/ CmdReconcile

Spec == Init /\ [][Next]_vars

\* the executor on its own: scan, place and place_with_fallback
NextExec ==
    \/ CmdScan
    \/ CmdPlace
    \/ PlaceWithFallback

SpecExec == Init /\ [][NextExec]_vars

\* the order life cycle across sessions: scan, place, fills, reconcile
NextRecon ==
    \/ Tick
    \/ BrokerFill
    \/ CmdScan
    \/ CmdPlaceOk
    \/ CmdReconcile

SpecRecon == Init /\ [][NextRecon]_vars

\* ------------------------------------------------ the builder on its own
SizingPrices == {50, 400, 10000}
SizingAtrs == {0, 2, 200, 400}
SizingCaps == {10, 100}

\* The functions of the builder are pure: a call does not depend on the calls
\* before it, so a run makes one call, or two sizing calls to compare.
BuilderIdle == ~sizing_call.called /\ ~caps_call.called /\ ~build_call.called

\* compute_safe_position_size called with the sizing settings of BaseConfig
ComputeSafePositionSize ==
    /\ ~prev_sizing.called /\ ~caps_call.called /\ ~build_call.called
    /\ \E equity \in Equities, price \in SizingPrices, atr \in SizingAtrs,
          max_pos_pct \in SizingCaps :
          sizing_call' =
             [called |-> TRUE, equity |-> equity, price |-> price, atr |-> atr,
              stop_mult |-> BaseConfig.risk.stop_atr_mult,
              risk_pct |-> BaseConfig.sizing.risk_per_trade_pct,
              min_notional |-> BaseConfig.sizing.min_notional,
              max_pos_pct |-> max_pos_pct,
              sized |-> compute_position_size(equity, price, atr,
                            BaseConfig.risk.stop_atr_mult,
                            BaseConfig.sizing.risk_per_trade_pct,
                            BaseConfig.sizing.min_notional, max_pos_pct),
              shares |-> compute_safe_position_size(equity, price, atr,
                            BaseConfig.risk.stop_atr_mult,
                            BaseConfig.sizing.risk_per_trade_pct,
                            BaseConfig.sizing.min_notional, max_pos_pct)]
    /\ prev_sizing' = sizing_call
    /\ UNCHANGED <<caps_call, build_call, gates_call, score_call, prev_score,
                   regime_source, regime_cache>>
    /\ UNCHANGED lifecycle_vars
    /\ UNCHANGED infra_vars

\* intents as the builder makes them, for a $50,000 account
CapIntents ==
    {row_intent(r, c, 50000, 0) :
        r \in {x \in ScanRows : x.symbol \in {"A", "B", "C", "P"}},
        c \in {BaseConfig, [BaseConfig EXCEPT !.order.entry_style = "market-now"]}}

\* enforce_portfolio_caps called on its own
EnforcePortfolioCaps ==
    /\ BuilderIdle
    /\ \E n \in 0..MaxRows, max_symbols \in 0..3, max_gross_exposure_pct \in {10, 18, 100} :
          \E intents \in [1..n -> CapIntents] :
             caps_call' =
                [called |-> TRUE, intents |-> intents, account_equity |-> 50000,
                 max_symbols |-> max_symbols,
                 max_gross_exposure_pct |-> max_gross_exposure_pct,
                 selected |-> enforce_portfolio_caps(intents, 50000, max_symbols,
                                                     max_gross_exposure_pct)]
    /\ UNCHANGED <<sizing_call, prev_sizing, build_call, gates_call, score_call,
                   prev_score, regime_source, regime_cache>>
    /\ UNCHANGED lifecycle_vars
    /\ UNCHANGED infra_vars

\* build_order_intents called on a scan result
BuildOrderIntents ==
    /\ BuilderIdle
    /\ \E scan_df \in ScanFrames, config \in Configs, account_equity \in {10000, 50000},
          open_positions \in Holdings :
          \E r \in {build_order_intents(scan_df, config, account_equity,
                                        open_positions, DateOf(now))} :
             build_call' =
                [called |-> TRUE, scan_df |-> scan_df, config |-> config,
                 account_equity |-> account_equity, open_positions |-> open_positions,
                 as_of |-> DateOf(now), intents |-> r.intents,
                 before_caps |-> r.before_caps, filtered |-> r.summary.filtered]
    /\ UNCHANGED <<sizing_call, prev_sizing, caps_call, gates_call, score_call,
                   prev_score, regime_source, regime_cache>>
    /\ UNCHANGED lifecycle_vars
    /\ UNCHANGED infra_vars

NextBuild ==
    \/ ComputeSafePositionSize
    \/ EnforcePortfolioCaps
    \/ BuildOrderIntents

SpecBuild == Init /\ [][NextBuild]_vars

\* ------------------------------------------- scan and place within a day
\* the scanner's rows of one day: A at two closing prices, and B
DayRows ==
    {x \in ScanRows : x.symbol \in {"A", "B"}}
        \cup {[x EXCEPT !.close = 9000] : x \in {y \in ScanRows : y.symbol = "A"}}
DayFrames == UNION {[1..n -> DayRows] : n \in 1..MaxIntents}
DayEquities == {10000, 50000}

\* adapter.get_positions(): the symbols of the entries the broker has filled
HeldSymbols(ords) ==
    {ords[i].symbol : i \in {j \in 1..Len(ords) :
                                ords[j].side = "buy" /\ ords[j].filled_qty > 0}}

\* cli/paper.py cmd_scan (not dry-run) with the intent builder: the scanner's
\* rows and the account equity are the inputs
CmdScanSized ==
    /\ \E scan_df \in DayFrames, account_equity \in DayEquities :
          LET today == DateOf(now)
              config == [BaseConfig EXCEPT !.order.entry_style = entry_style]
          IN \E r \in {build_order_intents(scan_df, config, account_equity,
                                           HeldSymbols(orders), today)} :
                /\ intents_files' = WriteFile(intents_files, today, r.intents)
                /\ manifest_files' = WriteFile(manifest_files, r.summary.run_id,
                                               [run_id |-> r.summary.run_id,
                                                intents |-> r.intents])
    /\ last_cmd' = "scan"
    /\ UNCHANGED engine_vars
    /\ UNCHANGED infra_vars
    /\ Forget
    /\ UNCHANGED <<now, utc_suffix, entry_style, orders, supports_cache, placement_files,
                   orders_log>>

\* time passes, the date stays
TickSameDay == Tick /\ DateOf(now') = DateOf(now)

NextDay ==
    \/ TickSameDay
    \/ CmdScanSized
    \/ CmdPlace

SpecDay == Init /\ [][NextDay]_vars

\* ------------------------------------------ the scoring engine on its own
\* gates.evaluate_gates called on its own (a pure function: one call a run)
EvaluateGates ==
    /\ ~gates_call.called /\ ~score_call.called
    /\ \E atr_ratio \in GateAtrRatios, close_t \in GateCloses, pullback_pct \in GatePullbacks :
          \E r \in {evaluate_gates(atr_ratio, close_t, 10000, pullback_pct)} :
             gates_call' = [called |-> TRUE, atr_ratio |-> atr_ratio, close_t |-> close_t,
                            sma50_t_minus_1 |-> 10000, pullback_pct |-> pullback_pct,
                            pass |-> r.pass, reason |-> r.reason]
    /\ UNCHANGED <<sizing_call, prev_sizing, caps_call, build_call, score_call,
                   prev_score, regime_source, regime_cache>>
    /\ UNCHANGED lifecycle_vars
    /\ UNCHANGED infra_vars

\* scoring_v2.calculate_score_v2 called on a bar sequence
CalculateScore ==
    /\ \E bars \in BarSeqs :
          \E r \in {calculate_score_v2(bars,
                        get_market_regime(regime_cache, regime_source, now))} :
             /\ score_call' = [called |-> TRUE, bars |-> bars, raised |-> r.raised,
                               score |-> r.score, reason |-> r.reason,
                               computed |-> r.computed]
             /\ regime_cache' = IF r.used_regime
                                THEN get_market_regime_cache(regime_cache, regime_source, now)
                                ELSE regime_cache
    /\ prev_score' = score_call
    /\ gates_call' = NoGates
    /\ UNCHANGED <<sizing_call, prev_sizing, caps_call, build_call, regime_source>>
    /\ UNCHANGED lifecycle_vars
    /\ UNCHANGED infra_vars

\* the market moves: the SPY / VIX bars of the data service change
RegimeChange ==
    /\ \E r \in Regimes : r # regime_source /\ regime_source' = r
    /\ UNCHANGED <<sizing_call, prev_sizing, caps_call, build_call, gates_call,
                   score_call, prev_score, regime_cache>>
    /\ UNCHANGED lifecycle_vars
    /\ UNCHANGED infra_vars

\* the process is restarted: the module-level detector starts with no cache
Restart ==
    /\ regime_cache # NoCache
    /\ regime_cache' = NoCache
    /\ UNCHANGED <<sizing_call, prev_sizing, caps_call, build_call, gates_call,
                   score_call, prev_score, regime_source>>
    /\ UNCHANGED lifecycle_vars
    /\ UNCHANGED infra_vars

NextScore ==
    \/ EvaluateGates
    \/ CalculateScore
    \/ RegimeChange
    \/ Restart
    \/ Tick

SpecScore == Init /\ [][NextScore]_vars

\* ------------------------------------------------ indicators on T-1 data
\* scoring_v2/indicators.py.  A bar is [c, h, l, v], prices in cents; the
\* averages are kept in thousandths of the unit of their inputs.
RECURSIVE SumRange(_, _, _)
SumRange(s, a, b) == IF a > b THEN 0 ELSE s[a] + SumRange(s, a + 1, b)

MaxRange(s, a, b) == CHOOSE m \in {s[i] : i \in a..b} : \A i \in a..b : s[i] <= m

Abs(x) == IF x < 0 THEN -x ELSE x

Max3(a, b, c) == IF a >= b /\ a >= c THEN a ELSE IF b >= c THEN b ELSE c

\* values[:-1]
AllButLast(s) == SubSeq(s, 1, Len(s) - 1)

\* indicators.py sma: the mean of the last `period` values
sma(values, period) ==
    IF Len(values) < period
    THEN IF values = <<>> THEN 0 ELSE (1000 * SumRange(values, 1, Len(values))) \div Len(values)
    ELSE (1000 * SumRange(values, Len(values) - period + 1, Len(values))) \div period

\* Wilder's smoothing, the loops at indicators.py:40-42 and 99-100, over
\* xs[a..b].  The range is walked in halves, the lower half first; an average
\* of gains, losses or true ranges is never negative.
RECURSIVE wilder_smooth(_, _, _, _, _)
wilder_smooth(avg, xs, a, b, period) ==
    IF a > b THEN avg
    ELSE IF a = b THEN (avg * (period - 1) + 1000 * xs[a]) \div period
    ELSE LET lower == wilder_smooth(avg, xs, a, (a + b) \div 2, period)
         IN IF lower < 0 THEN lower
            ELSE wilder_smooth(lower, xs, (a + b) \div 2 + 1, b, period)

\* indicators.py wilder_rsi, in tenths of a point
wilder_rsi(prices, period) ==
    IF Len(prices) < period + 2 THEN 500
    ELSE LET working_prices == AllButLast(prices)
             deltas == [i \in 1..(Len(working_prices) - 1) |->
                           working_prices[i + 1] - working_prices[i]]
             gains == [i \in 1..Len(deltas) |-> IF deltas[i] > 0 THEN deltas[i] ELSE 0]
             losses == [i \in 1..Len(deltas) |-> IF deltas[i] < 0 THEN -deltas[i] ELSE 0]
             avg_gain == wilder_smooth((1000 * SumRange(gains, 1, period)) \div period,
                                       gains, period + 1, Len(gains), period)
             avg_loss == wilder_smooth((1000 * SumRange(losses, 1, period)) \div period,
                                       losses, period + 1, Len(losses), period)
         IN IF avg_loss = 0 THEN (IF avg_gain > 0 THEN 1000 ELSE 500)
            ELSE (1000 * avg_gain) \div (avg_gain + avg_loss)

\* indicators.py wilder_atr
wilder_atr(bars, period) ==
    IF Len(bars) < period + 2 THEN 0
    ELSE LET working_bars == AllButLast(bars)
             true_ranges == [i \in 1..(Len(working_bars) - 1) |->
                                Max3(working_bars[i + 1].h - working_bars[i + 1].l,
                                     Abs(working_bars[i + 1].h - working_bars[i].c),
                                     Abs(working_bars[i + 1].l - working_bars[i].c))]
         IN wilder_smooth((1000 * SumRange(true_ranges, 1, period)) \div period,
                          true_ranges, period + 1, Len(true_ranges), period)

SmaPeriod == 50
HighPeriod == 20
VolumePeriod == 10
WilderPeriod == 14

\* the indicators with the 20-session high taken over the last 20 sessions,
\* session T among them
calculate_indicators_with_today(bars) ==
    LET n == Len(bars)
        closes == [i \in 1..n |-> bars[i].c]
        highs == [i \in 1..n |-> bars[i].h]
        volumes == [i \in 1..n |-> bars[i].v]
    IN [raised |-> n < IndicatorBars,
        sma50_t_minus_1 |-> sma(AllButLast(closes), SmaPeriod),
        high20_t_minus_1 |-> MaxRange(highs, n - HighPeriod + 1, n),
        vol_avg_10_t_minus_1 |-> (1000 * SumRange(volumes, n - VolumePeriod, n - 1))
                                    \div VolumePeriod,
        rsi_raw |-> wilder_rsi(closes, WilderPeriod),
        atr_raw |-> wilder_atr(bars, WilderPeriod),
        close_t |-> closes[n],
        volume_t |-> volumes[n]]

\* indicators.py calculate_indicators_t_minus_1; with 366 bars or more the
\* branches for short series are not taken
calculate_indicators_t_minus_1(bars) ==
    LET n == Len(bars)
        closes == [i \in 1..n |-> bars[i].c]
        highs == [i \in 1..n |-> bars[i].h]
        volumes == [i \in 1..n |-> bars[i].v]
    IN [raised |-> n < IndicatorBars,
        sma50_t_minus_1 |-> sma(AllButLast(closes), SmaPeriod),
        high20_t_minus_1 |-> MaxRange(highs, n - HighPeriod, n - 1),
        vol_avg_10_t_minus_1 |-> (1000 * SumRange(volumes, n - VolumePeriod, n - 1))
                                    \div VolumePeriod,
        rsi_raw |-> wilder_rsi(closes, WilderPeriod),
        atr_raw |-> wilder_atr(bars, WilderPeriod),
        close_t |-> closes[n],
        volume_t |-> volumes[n]]

\* a year and a half of sessions that end on different notes: 365 sessions
\* of history, whose last one (T-1) is one of HistoryEnds, and session T
HistoryBar(i) ==
    [c |-> 10000 + 10 * ((7 * i) % 13), h |-> 10060 + 10 * ((7 * i) % 13),
     l |-> 9950 + 10 * ((7 * i) % 13), v |-> 1000 + 100 * (i % 5)]

HistoryEnds ==
    {[c |-> 10050, h |-> 10100, l |-> 10000, v |-> 1200],
     [c |-> 10250, h |-> 10300, l |-> 10000, v |-> 1200],
     [c |-> 10050, h |-> 10100, l |-> 9800, v |-> 3000]}

TodayBars == [c : {10100, 9900}, h : {10150, 10500}, l : {9850, 9500}, v : {900, 5000}]

BarsOf(end, today) ==
    [i \in 1..IndicatorBars |->
        IF i = IndicatorBars THEN today
        ELSE IF i = IndicatorBars - 1 THEN end
        ELSE HistoryBar(i)]

\* calculate_indicators_t_minus_1 called on a bar sequence; a run makes two
\* calls to compare
CalculateIndicators ==
    /\ ~prev_indicators.called
    /\ \E end \in HistoryEnds, today \in TodayBars :
          \E r \in {calculate_indicators_t_minus_1(BarsOf(end, today))} :
             indicators_call' =
                [called |-> TRUE, history_end |-> end, today |-> today,
                 sma50_t_minus_1 |-> r.sma50_t_minus_1,
                 high20_t_minus_1 |-> r.high20_t_minus_1,
                 vol_avg_10_t_minus_1 |-> r.vol_avg_10_t_minus_1,
                 rsi_raw |-> r.rsi_raw, atr_raw |-> r.atr_raw]
    /\ prev_indicators' = indicators_call
    /\ UNCHANGED beside_indicator

NextIndicators == CalculateIndicators

SpecIndicators == Init /\ [][NextIndicators]_vars

\* ----------------------------------------------------- the scan service
\* api/scanner_wrapper.py.  The coroutines run on one event loop: a step is
\* what a coroutine does between two awaits that suspend it (asyncio.sleep in
\* cancel_scan, asyncio.to_thread in _run_scan).
MaxRuns == 2
Tickers == <<"A", "B">>
max_history == 5

\* start_scan, lines 117-126: the dict of a new run; written_by keeps the
\* tasks that assigned to the dict
NewRun(run_id) ==
    [run_id |-> run_id, state |-> "created", cancel_flag |-> FALSE,
     done |-> 0, total |-> 0, partial_results |-> 0, results |-> 0,
     has_metadata |-> FALSE, has_error |-> FALSE, written_by |-> {}]

NewTask == [pc |-> "created", i |-> 0, results |-> 0, ticker_under |-> 0]

\* cancel_scan, lines 269-272: up to the sleep; TRUE when the call goes on
cancel_scan_applies(rs, active, run_id) ==
    active # NoRun /\ rs[active].run_id = run_id /\ rs[active].state = "running"

cancel_scan_begin(rs, active) ==
    [rs EXCEPT ![active].cancel_flag = TRUE, ![active].state = "canceling"]

\* cancel_scan, lines 277-278, after the sleep, on what self.active_run is now
cancel_scan_end(rs, active) ==
    IF rs[active].state # "canceled" THEN [rs EXCEPT ![active].state = "canceled"]
    ELSE rs

\* _add_to_history
add_to_history(history, rs, active) ==
    IF active # NoRun /\ rs[active].state \in {"done", "error"}
    THEN LET h == <<[run_id |-> rs[active].run_id,
                     results_count |-> rs[active].results]>> \o history
         IN IF Len(h) > max_history THEN SubSeq(h, 1, max_history) ELSE h
    ELSE history

\* _run_scan, lines 192-227: after the loop; scored = calculate_scores and
\* the metadata did not raise
run_scan_finish(rs, active, task, results, scored) ==
    IF rs[active].state = "canceled" THEN rs
    ELSE IF ~scored
    THEN [rs EXCEPT ![active].state = "error", ![active].has_error = TRUE,
                    ![active].written_by = @ \cup {task}]
    ELSE [rs EXCEPT ![active].results = results, ![active].has_metadata = TRUE,
                    ![active].state = "done", ![active].written_by = @ \cup {task}]

\* the changes of state between two values of the run dicts, made by call op
\* on behalf of run_id
moves_between(before, after, op, run_id) ==
    {[run |-> r, from |-> before[r].state, to |-> after[r].state,
      op |-> op, run_id |-> run_id] :
        r \in {x \in 1..Len(before) : before[x].state # after[x].state}}

\* start_scan, lines 116-134: the new run and its task
StartNewRun ==
    /\ runs' = Append(runs, NewRun(Len(runs) + 1))
    /\ active_run' = Len(runs) + 1
    /\ scan_tasks' = Append(scan_tasks, NewTask)

\* start_scan is called: with a running active run it calls cancel_scan and
\* is suspended in its sleep, otherwise it creates the run at once
StartScan ==
    /\ Len(runs) + Cardinality({s \in sleepers : s.from = "start_scan"}) < MaxRuns
    /\ IF active_run # NoRun /\ runs[active_run].state = "running"
       THEN /\ runs' = cancel_scan_begin(runs, active_run)
            /\ sleepers' = sleepers \cup {[run_id |-> active_run, from |-> "start_scan"]}
            /\ UNCHANGED <<active_run, scan_tasks>>
       ELSE /\ StartNewRun
            /\ UNCHANGED sleepers
    /\ state_moves' = moves_between(runs, runs', "cancel_scan", active_run)
    /\ UNCHANGED run_history
    /\ UNCHANGED beside_run

\* the sleep of the cancel_scan inside start_scan is over: cancel_scan ends
\* and start_scan creates the new run
StartScanResume ==
    /\ \E s \in sleepers :
          /\ s.from = "start_scan"
          /\ sleepers' = sleepers \ {s}
          /\ runs' = Append(cancel_scan_end(runs, active_run), NewRun(Len(runs) + 1))
          /\ state_moves' = moves_between(runs, runs', "cancel_scan", s.run_id)
          /\ active_run' = Len(runs) + 1
          /\ scan_tasks' = Append(scan_tasks, NewTask)
    /\ UNCHANGED run_history
    /\ UNCHANGED beside_run

\* cancel_scan(run_id) is called by the API: up to the sleep
CancelScan ==
    /\ \E run_id \in 1..Len(runs) :
          /\ cancel_scan_applies(runs, active_run, run_id)
          /\ runs' = cancel_scan_begin(runs, active_run)
          /\ sleepers' = sleepers \cup {[run_id |-> run_id, from |-> "cancel_scan"]}
          /\ state_moves' = moves_between(runs, runs', "cancel_scan", run_id)
    /\ UNCHANGED <<active_run, run_history, scan_tasks>>
    /\ UNCHANGED beside_run

\* the sleep of a cancel_scan called by the API is over
CancelScanResume ==
    /\ \E s \in sleepers :
          /\ s.from = "cancel_scan"
          /\ sleepers' = sleepers \ {s}
          /\ runs' = cancel_scan_end(runs, active_run)
          /\ state_moves' = moves_between(runs, runs', "cancel_scan", s.run_id)
    /\ UNCHANGED <<active_run, run_history, scan_tasks>>
    /\ UNCHANGED beside_run

\* the task of a run starts: _run_scan up to the first to_thread; ready =
\* the components of lines 147-154 were built without an error.  The wrapper
\* is modelled against the components it calls (scan_ticker, calculate_scores);
\* the TokenBucket and Scanner of src/src/swingtrading take other arguments,
\* which is the case ~ready.
RunScanStart ==
    /\ \E t \in 1..Len(scan_tasks), ready \in BOOLEAN :
          /\ scan_tasks[t].pc = "created"
          /\ IF runs[active_run].run_id # t
             THEN /\ scan_tasks' = [scan_tasks EXCEPT ![t].pc = "returned"]
                  /\ UNCHANGED runs
                  /\ state_moves' = {}
             ELSE \E started \in {[runs EXCEPT ![active_run].state = "running",
                                               ![active_run].written_by = @ \cup {t}]} :
                  IF ~ready
                  THEN /\ runs' = [started EXCEPT ![active_run].state = "error",
                                                  ![active_run].has_error = TRUE]
                       /\ scan_tasks' = [scan_tasks EXCEPT ![t].pc = "returned"]
                       /\ state_moves' = moves_between(runs, started, "_run_scan", t)
                                            \cup moves_between(started, runs', "_run_scan", t)
                  ELSE /\ runs' = [started EXCEPT ![active_run].total = Len(Tickers)]
                       /\ scan_tasks' = [scan_tasks EXCEPT ![t].pc = "scanning", ![t].i = 1,
                                                           ![t].ticker_under = active_run]
                       /\ state_moves' = moves_between(runs, runs', "_run_scan", t)
    /\ UNCHANGED <<active_run, run_history, sleepers>>
    /\ UNCHANGED beside_run

\* scan_ticker of the current ticker returns in its thread and the task goes
\* on: lines 178-190, then the head of the next iteration or lines 192-227;
\* found = a result came back, scored = nothing raised after the loop
RunScanTickerDone ==
    /\ \E t \in 1..Len(scan_tasks), found \in BOOLEAN, scored \in BOOLEAN :
          /\ scan_tasks[t].pc = "scanning"
          /\ LET results == scan_tasks[t].results + (IF found THEN 1 ELSE 0)
                 i == scan_tasks[t].i
                 after_ticker ==
                    [runs EXCEPT ![active_run].partial_results =
                                     IF found THEN results ELSE @,
                                 ![active_run].done = i,
                                 ![active_run].written_by = @ \cup {t}]
                 after_break ==
                    IF i < Len(Tickers)
                    THEN [after_ticker EXCEPT ![active_run].state = "canceled"]
                    ELSE after_ticker
             IN IF i < Len(Tickers) /\ ~after_ticker[active_run].cancel_flag
                THEN /\ scored
                     /\ runs' = after_ticker
                     /\ scan_tasks' = [scan_tasks EXCEPT ![t].i = i + 1,
                                                         ![t].results = results,
                                                         ![t].ticker_under = active_run]
                     /\ state_moves' = {}
                     /\ UNCHANGED run_history
                ELSE /\ runs' = run_scan_finish(after_break, active_run, t, results, scored)
                     /\ scan_tasks' = [scan_tasks EXCEPT ![t].pc = "returned",
                                                         ![t].results = results]
                     /\ state_moves' = moves_between(runs, after_break, "_run_scan", t)
                                          \cup moves_between(after_break, runs', "_run_scan", t)
                     /\ run_history' =
                           IF scored THEN add_to_history(run_history, runs', active_run)
                           ELSE run_history
    /\ UNCHANGED <<active_run, sleepers>>
    /\ UNCHANGED beside_run

NextRuns ==
    \/ StartScan
    \/ StartScanResume
    \/ CancelScan
    \/ CancelScanResume
    \/ RunScanStart
    \/ RunScanTickerDone

SpecRuns == Init /\ [][NextRuns]_vars

\* ----------------------------------------------------------- the scanner
\* src/src/swingtrading/scanner.py.  The workers are threads of the executor;
\* the collecting loop runs in the caller's thread.
ScanTickers == <<"A", "B">>
WorkerOutcomes == {"passed", "no_data", "low_liquidity"}

\* _track_rejection, lines 371-373, from a count read before
track_rejection(stats, reason, count) == [stats EXCEPT ![reason] = count + 1]

\* scan, lines 66-82, and the submit loop of _scan_without_progress: the
\* statistics are reset and one future per ticker is submitted
Scan ==
    /\ next_future = 0
    /\ filter_stats' = NoStats
    /\ scan_results' = <<>>
    /\ futures' = [i \in 1..Len(ScanTickers) |-> [pc |-> "queued", outcome |-> "", count |-> 0]]
    /\ tallied' = [i \in 1..Len(ScanTickers) |-> <<>>]
    /\ next_future' = 1
    /\ UNCHANGED scan_return
    /\ UNCHANGED beside_scan

\* a worker runs _process_ticker up to its return or to _track_rejection,
\* where it has read the count of its reason (line 373, the read of +=)
ProcessTicker ==
    /\ \E i \in 1..Len(futures), outcome \in WorkerOutcomes :
          /\ futures[i].pc = "queued"
          /\ futures' = [futures EXCEPT ![i] =
                [pc |-> IF outcome = "passed" THEN "done" ELSE "tracking",
                 outcome |-> outcome,
                 count |-> IF outcome = "passed" THEN 0 ELSE filter_stats[outcome]]]
    /\ UNCHANGED <<filter_stats, scan_results, next_future, tallied, scan_return>>
    /\ UNCHANGED beside_scan

\* the worker stores the count (line 373, the write of +=) and returns None
TrackRejection ==
    /\ \E i \in 1..Len(futures) :
          /\ futures[i].pc = "tracking"
          /\ filter_stats' = track_rejection(filter_stats, futures[i].outcome, futures[i].count)
          /\ tallied' = [tallied EXCEPT ![i] = Append(@, futures[i].outcome)]
          /\ futures' = [futures EXCEPT ![i].pc = "done"]
    /\ UNCHANGED <<scan_results, next_future, scan_return>>
    /\ UNCHANGED beside_scan

\* what scan hands back once the last future is collected, lines 84-90
scan_returns(i, results, stats, tally) ==
    IF i < Len(ScanTickers) THEN scan_return
    ELSE [returned |-> TRUE, results |-> results, filter_stats |-> stats, tallied |-> tally]

\* one iteration of the collecting loop, lines 153-162: the result of a
\* finished future, or a timeout while its worker is still running
Collect ==
    /\ next_future \in 1..Len(ScanTickers)
    /\ \E timed_out \in BOOLEAN :
          LET i == next_future
              finished == futures[i].pc = "done"
          IN /\ timed_out = ~finished
             /\ IF finished
                THEN /\ scan_results' = IF futures[i].outcome = "passed"
                                        THEN Append(scan_results, ScanTickers[i])
                                        ELSE scan_results
                     /\ UNCHANGED <<filter_stats, tallied>>
                ELSE /\ filter_stats' = track_rejection(filter_stats, "timeout",
                                                        filter_stats["timeout"])
                     /\ tallied' = [tallied EXCEPT ![i] = Append(@, "timeout")]
                     /\ UNCHANGED scan_results
             /\ scan_return' = scan_returns(i, scan_results', filter_stats', tallied')
             /\ next_future' = i + 1
    /\ UNCHANGED futures
    /\ UNCHANGED beside_scan

NextScan ==
    \/ Scan
    \/ ProcessTicker
    \/ TrackRejection
    \/ Collect

SpecScan == Init /\ [][NextScan]_vars

\* ----------------------------------------------------- the data provider
\* src/src/swingtrading/data_provider.py
RETRY_STATUS_CODES == {429, 503, 504, 408}
FAST_FAIL_CODES == {400, 401, 403}
MAX_RETRIES == 3
BACKOFF_BASE == 2

\* what one attempt can meet: a frame (valid or not), an APIError with a code
\* (0: without one; a 422 with or without a "no data" message), the SDK's
\* NoDataAvailable, a ConnectionError or TimeoutError
ApiCodes == FAST_FAIL_CODES \cup RETRY_STATUS_CODES \cup {422, 500, 0}
Responses ==
    [kind : {"frame", "invalid_frame", "no_data_available", "network"},
     code : {0}, no_data : {FALSE}]
    \cup [kind : {"api_error"}, code : ApiCodes \ {422}, no_data : {FALSE}]
    \cup [kind : {"api_error"}, code : {422}, no_data : BOOLEAN]

RECURSIVE Power(_, _)
Power(base, n) == IF n = 0 THEN 1 ELSE base * Power(base, n - 1)

should_retry_any_error(response, attempt) ==
    response.kind \in {"api_error", "network"} /\ attempt < MAX_RETRIES - 1

\* lines 287-319: the attempt is followed by a sleep and another attempt
should_retry(response, attempt) ==
    /\ \/ /\ response.kind = "api_error"
          /\ response.code # 0
          /\ response.code \notin FAST_FAIL_CODES
          /\ response.code # 422
          /\ response.code \in RETRY_STATUS_CODES
       \/ response.kind = "network"
    /\ attempt < MAX_RETRIES - 1

\* the exception an attempt that is not retried ends with
raised_by(response) ==
    CASE response.kind = "invalid_frame" -> "DataError"
      [] response.kind = "no_data_available" -> "DataError"
      [] response.kind = "api_error" /\ response.code = 422 /\ response.no_data -> "DataError"
      [] response.kind = "api_error" -> "APIError"
      [] OTHER -> "NetworkError"

\* _fetch_bars_with_retry, lines 264-325: attempt is the loop variable,
\* sleeps the waits made so far
RECURSIVE fetch_bars_with_retry(_, _, _)
fetch_bars_with_retry(responses, attempt, sleeps) ==
    IF attempt >= MAX_RETRIES
    THEN [returned |-> "raised", error |-> "DataError", attempts |-> attempt, sleeps |-> sleeps]
    ELSE IF responses[attempt + 1].kind = "frame"
    THEN [returned |-> "frame", error |-> "", attempts |-> attempt + 1, sleeps |-> sleeps]
    ELSE IF should_retry(responses[attempt + 1], attempt)
    THEN fetch_bars_with_retry(responses, attempt + 1,
                               Append(sleeps, Power(BACKOFF_BASE, attempt)))
    ELSE [returned |-> "raised", error |-> raised_by(responses[attempt + 1]),
          attempts |-> attempt + 1, sleeps |-> sleeps]

\* one fetch; responses[k] is what the k-th attempt would meet
FetchBarsWithRetry ==
    /\ ~fetch_call.called
    /\ \E responses \in [1..MAX_RETRIES -> Responses] :
          \E r \in {fetch_bars_with_retry(responses, 0, <<>>)} :
             fetch_call' = [called |-> TRUE, responses |-> responses,
                            returned |-> r.returned, error |-> r.error,
                            attempts |-> r.attempts, sleeps |-> r.sleeps]
    /\ UNCHANGED beside_fetch

NextFetch == FetchBarsWithRetry

SpecFetch == Init /\ [][NextFetch]_vars

\* ------------------------------------------------------- the rate limiter
\* src/src/swingtrading/rate_limiter.py.  Time is counted in ticks of
\* 1 / rate seconds, so that one token is refilled per tick.
Capacity == 2
MaxClock == 2
MaxCalls == 3
Amounts == {1, 2}

Min(a, b) == IF a < b THEN a ELSE b

\* lines 45, 76: the balance after the refill for the elapsed ticks
refill(balance, elapsed) == Min(Capacity, balance + elapsed)

lock_always_free(holder) == TRUE

\* threading.Lock: the lock can be taken
lock_free(holder) == holder = 0

\* time passes
BucketTick ==
    /\ bucket_clock < MaxClock
    /\ bucket_clock' = bucket_clock + 1
    /\ UNCHANGED <<tokens, last_update, bucket_lock, callers, bucket_calls, last_grant, ledger>>
    /\ UNCHANGED beside_bucket

\* a thread calls acquire(n), try_acquire(n) or reset(start_full) and takes
\* the lock; an acquire that slept takes it again (lines 41, 70, 107)
TakeLock ==
    /\ lock_free(bucket_lock)
    /\ \E t \in Threads :
          \/ /\ callers[t].pc = "idle"
             /\ bucket_calls < MaxCalls
             /\ bucket_calls' = bucket_calls + 1
             /\ \E op \in {"acquire", "try_acquire"}, n \in Amounts :
                   callers' = [callers EXCEPT ![t] =
                       [pc |-> "refill", op |-> op, n |-> n, wake |-> 0, result |-> ""]]
             /\ bucket_lock' = t
          \/ /\ callers[t].pc = "idle"
             /\ bucket_calls < MaxCalls
             /\ bucket_calls' = bucket_calls + 1
             /\ \E start_full \in BOOLEAN :
                   callers' = [callers EXCEPT ![t] =
                       [pc |-> "reset", op |-> "reset", n |-> IF start_full THEN Capacity ELSE 0,
                        wake |-> 0, result |-> ""]]
             /\ bucket_lock' = t
          \/ /\ callers[t].pc = "sleeping"
             /\ bucket_clock >= callers[t].wake
             /\ callers' = [callers EXCEPT ![t].pc = "refill"]
             /\ bucket_lock' = t
             /\ UNCHANGED bucket_calls
    /\ UNCHANGED <<tokens, last_update, bucket_clock, last_grant, ledger>>
    /\ UNCHANGED beside_bucket

\* lines 42-47 and 71-77: the refill
Refill ==
    /\ \E t \in Threads :
          /\ callers[t].pc = "refill"
          /\ tokens' = refill(tokens, bucket_clock - last_update)
          /\ last_update' = bucket_clock
          /\ ledger' = [ledger EXCEPT !.supplied = @ + (tokens' - tokens)]
          /\ callers' = [callers EXCEPT ![t].pc = "check"]
    /\ UNCHANGED <<bucket_lock, bucket_clock, bucket_calls, last_grant>>
    /\ UNCHANGED beside_bucket

\* lines 50 and 80: are there enough tokens?  If not, acquire computes its
\* wait, leaves the lock and sleeps; try_acquire returns False
Check ==
    /\ \E t \in Threads :
          /\ callers[t].pc = "check"
          /\ IF tokens >= callers[t].n
             THEN /\ callers' = [callers EXCEPT ![t].pc = "deduct"]
                  /\ UNCHANGED bucket_lock
             ELSE /\ callers' = [callers EXCEPT ![t] =
                        IF callers[t].op = "acquire"
                        THEN [@ EXCEPT !.pc = "sleeping",
                                       !.wake = bucket_clock + (callers[t].n - tokens)]
                        ELSE [IdleCaller EXCEPT !.result = "false"]]
                  /\ bucket_lock' = IF bucket_lock = t THEN 0 ELSE bucket_lock
    /\ UNCHANGED <<tokens, last_update, bucket_clock, bucket_calls, last_grant, ledger>>
    /\ UNCHANGED beside_bucket

\* lines 51-52 and 81-82: the tokens are removed and the call returns
Deduct ==
    /\ \E t \in Threads :
          /\ callers[t].pc = "deduct"
          /\ tokens' = tokens - callers[t].n
          /\ last_grant' = [thread |-> t, n |-> callers[t].n, before |-> tokens,
                            after |-> tokens']
          /\ ledger' = [ledger EXCEPT !.granted = @ + callers[t].n]
          /\ callers' = [callers EXCEPT ![t] = [IdleCaller EXCEPT !.result = "granted"]]
          /\ bucket_lock' = IF bucket_lock = t THEN 0 ELSE bucket_lock
    /\ UNCHANGED <<last_update, bucket_clock, bucket_calls>>
    /\ UNCHANGED beside_bucket

\* reset, lines 107-109
Reset ==
    /\ \E t \in Threads :
          /\ callers[t].pc = "reset"
          /\ tokens' = callers[t].n
          /\ last_update' = bucket_clock
          /\ ledger' = [supplied |-> callers[t].n, granted |-> 0]
          /\ callers' = [callers EXCEPT ![t] = [IdleCaller EXCEPT !.result = "reset"]]
          /\ bucket_lock' = IF bucket_lock = t THEN 0 ELSE bucket_lock
    /\ UNCHANGED <<bucket_clock, bucket_calls, last_grant>>
    /\ UNCHANGED beside_bucket

NextBucket ==
    \/ BucketTick
    \/ TakeLock
    \/ Refill
    \/ Check
    \/ Deduct
    \/ Reset

SpecBucket == Init /\ [][NextBucket]_vars

\* ---------------------------------------------------------- the bar cache
\* src/src/swingtrading/cache_manager.py: write, thread by thread
\* line 111: the cache file of a symbol
file_path(symbol) == <<"cache", symbol>>

temp_path_in_place(symbol) == <<"cache", symbol>>

\* line 112: the temporary file of a symbol
temp_path(symbol) == <<"tmp", symbol>>

get_lock_always_new(locks, symbol, fresh) == [locks EXCEPT ![symbol] = fresh]

\* _get_lock, lines 57-59: the lock of the symbol, made on its first use
get_lock(locks, symbol, fresh) ==
    IF locks[symbol] = 0 THEN [locks EXCEPT ![symbol] = fresh] ELSE locks

\* Path.replace, line 119
replace(files, temp, target) ==
    IF temp = target THEN files ELSE [files EXCEPT ![target] = files[temp], ![temp] = 0]

\* write(symbol, df) is called with a frame that is not empty and waits for
\* the mutex of _get_lock (lines 104-108)
Write ==
    /\ writes_begun < MaxWrites
    /\ \E t \in Threads, symbol \in CacheSymbols :
          /\ writers[t].pc = "idle"
          /\ writers' = [writers EXCEPT ![t] =
                [IdleWriter EXCEPT !.pc = "get_lock", !.symbol = symbol,
                                   !.content = writes_begun + 1]]
    /\ writes_begun' = writes_begun + 1
    /\ UNCHANGED <<cache_files, cache_locks, lock_holders, lock_mutex, last_good, last_write>>
    /\ UNCHANGED beside_cache

\* _get_lock, line 56: the mutex is taken
TakeMutex ==
    /\ lock_mutex = 0
    /\ \E t \in Threads :
          /\ writers[t].pc = "get_lock"
          /\ lock_mutex' = t
          /\ writers' = [writers EXCEPT ![t].pc = "lookup"]
    /\ UNCHANGED <<cache_files, cache_locks, lock_holders, writes_begun, last_good, last_write>>
    /\ UNCHANGED beside_cache

\* _get_lock, lines 57-59: the lock is looked up or made, the mutex is left
GetLock ==
    /\ \E t \in Threads :
          /\ writers[t].pc = "lookup"
          /\ cache_locks' = get_lock(cache_locks, writers[t].symbol, writers[t].content)
          /\ writers' = [writers EXCEPT ![t].pc = "with_lock",
                                        ![t].lock = cache_locks'[writers[t].symbol]]
          /\ lock_mutex' = 0
    /\ UNCHANGED <<cache_files, lock_holders, writes_begun, last_good, last_write>>
    /\ UNCHANGED beside_cache

\* line 110: the lock of the symbol is taken
EnterLock ==
    /\ \E t \in Threads :
          /\ writers[t].pc = "with_lock"
          /\ lock_holders[writers[t].lock] = 0
          /\ lock_holders' = [lock_holders EXCEPT ![writers[t].lock] = t]
          /\ writers' = [writers EXCEPT ![t].pc = "to_parquet"]
    /\ UNCHANGED <<cache_files, cache_locks, lock_mutex, writes_begun, last_good, last_write>>
    /\ UNCHANGED beside_cache

\* line 116: to_parquet creates the temporary file and starts to fill it,
\* or fails before
ToParquetBegin ==
    /\ \E t \in Threads, ok \in BOOLEAN :
          /\ writers[t].pc = "to_parquet"
          /\ IF ok
             THEN /\ cache_files' = [cache_files EXCEPT ![temp_path(writers[t].symbol)] =
                                        PartialFile]
                  /\ writers' = [writers EXCEPT ![t].pc = "writing"]
             ELSE /\ writers' = [writers EXCEPT ![t].pc = "cleanup", ![t].failed = TRUE]
                  /\ UNCHANGED cache_files
    /\ UNCHANGED <<cache_locks, lock_holders, lock_mutex, writes_begun, last_good, last_write>>
    /\ UNCHANGED beside_cache

\* line 116: to_parquet completes the temporary file, or fails part-way
ToParquetEnd ==
    /\ \E t \in Threads, ok \in BOOLEAN :
          /\ writers[t].pc = "writing"
          /\ IF ok
             THEN /\ cache_files' = [cache_files EXCEPT ![temp_path(writers[t].symbol)] =
                                        writers[t].content]
                  /\ writers' = [writers EXCEPT ![t].pc = "replace"]
             ELSE /\ writers' = [writers EXCEPT ![t].pc = "cleanup", ![t].failed = TRUE]
                  /\ UNCHANGED cache_files
    /\ UNCHANGED <<cache_locks, lock_holders, lock_mutex, writes_begun, last_good, last_write>>
    /\ UNCHANGED beside_cache

\* lines 119-121: the rename; when it succeeds write leaves the lock and
\* returns
Replace ==
    /\ \E t \in Threads, ok \in BOOLEAN :
          /\ writers[t].pc = "replace"
          /\ IF ok
             THEN /\ cache_files' = replace(cache_files, temp_path(writers[t].symbol),
                                            file_path(writers[t].symbol))
                  /\ writers' = [writers EXCEPT ![t] = IdleWriter]
                  /\ lock_holders' = [lock_holders EXCEPT ![writers[t].lock] =
                                         IF @ = t THEN 0 ELSE @]
                  /\ last_good' = [last_good EXCEPT ![writers[t].symbol] = writers[t].content]
                  /\ last_write' = [thread |-> t, symbol |-> writers[t].symbol,
                                    result |-> "returned", temp_left |-> FALSE,
                                    unlink_failed |-> FALSE]
             ELSE /\ writers' = [writers EXCEPT ![t].pc = "cleanup", ![t].failed = TRUE]
                  /\ UNCHANGED <<cache_files, lock_holders, last_good, last_write>>
    /\ UNCHANGED <<cache_locks, lock_mutex, writes_begun>>
    /\ UNCHANGED beside_cache

\* lines 123-133: the temporary file is removed if it is there, as far as
\* unlink succeeds; the lock is left and the error is raised
Cleanup ==
    /\ \E t \in Threads, unlinked \in BOOLEAN :
          /\ writers[t].pc = "cleanup"
          /\ LET temp == temp_path(writers[t].symbol)
                 there == cache_files[temp] # 0
             IN /\ there \/ unlinked
                /\ cache_files' = IF there /\ unlinked
                                  THEN [cache_files EXCEPT ![temp] = 0]
                                  ELSE cache_files
                /\ last_write' = [thread |-> t, symbol |-> writers[t].symbol,
                                  result |-> "raised",
                                  temp_left |-> cache_files'[<<"tmp", writers[t].symbol>>] # 0,
                                  unlink_failed |-> there /\ ~unlinked]
          /\ writers' = [writers EXCEPT ![t] = IdleWriter]
          /\ lock_holders' = [lock_holders EXCEPT ![writers[t].lock] = IF @ = t THEN 0 ELSE @]
    /\ UNCHANGED <<cache_locks, lock_mutex, writes_begun, last_good>>
    /\ UNCHANGED beside_cache

NextCache ==
    \/ Write
    \/ TakeMutex
    \/ GetLock
    \/ EnterLock
    \/ ToParquetBegin
    \/ ToParquetEnd
    \/ Replace
    \/ Cleanup

SpecCache == Init /\ [][NextCache]_vars

\* ------------------------------------------------------------ properties
CountId(entries, coid) ==
    Cardinality({i \in 1..Len(entries) : entries[i].client_order_id = coid})

PlacedLive == last_cmd = "place" /\ place_call.called /\ ~place_call.dry_run

\* C1: when place_orders runs twice in a row, not dry-run, on the same intents,
\* and after the first call every intent had its order at the broker, the
\* second call sends no POST, reports every intent as skipped 'duplicate',
\* places nothing, and the broker holds exactly one order per client_order_id.
C1_IdempotentPlacement ==
    (/\ PlacedLive
     /\ prev_place.called /\ ~prev_place.dry_run
     /\ prev_place.intents = place_call.intents
     /\ prev_place.covered)
    => /\ place_call.posts = 0
       /\ place_call.placed = <<>>
       /\ place_call.errors = <<>>
       /\ Len(place_call.skipped) = Len(place_call.intents)
       /\ \A i \in 1..Len(place_call.intents) :
             /\ place_call.skipped[i].reason = "duplicate"
             /\ place_call.skipped[i].client_order_id =
                    place_call.intents[i].client_order_id
             /\ CountId(orders, place_call.intents[i].client_order_id) = 1

\* a second call on a batch of two intents that the first call placed in full
C1_Witness ==
    /\ PlacedLive
    /\ prev_place.called /\ ~prev_place.dry_run
    /\ prev_place.intents = place_call.intents
    /\ Len(prev_place.placed) = 2
    /\ prev_place.posts = 2
    /\ Len(place_call.skipped) = 2

\* C2: after morning_reconcile, every pending_oco placement record whose
\* order the broker reported filled has exactly one OCO request, for the
\* reported filled quantity and with the stop and target of the intent
\* persisted for that symbol by the run.
C2_OcoForEveryFill ==
    (last_cmd = "reconcile" /\ ~recon_call.crashed)
    => \A i \in 1..Len(recon_call.fills) :
          recon_call.fills[i].is_filled =>
             /\ Cardinality({k \in 1..Len(recon_call.oco_sent) :
                   recon_call.oco_sent[k].parent_id = recon_call.fills[i].order_id}) = 1
             /\ \A k \in 1..Len(recon_call.oco_sent) :
                   recon_call.oco_sent[k].parent_id = recon_call.fills[i].order_id =>
                      /\ recon_call.oco_sent[k].qty = recon_call.fills[i].filled_qty
                      /\ Exists(manifest_files, recon_call.run_id)
                      /\ \E j \in 1..Len(manifest_files[recon_call.run_id].intents) :
                            LET intent == manifest_files[recon_call.run_id].intents[j]
                            IN /\ intent.symbol = recon_call.fills[i].symbol
                               /\ intent.bracket.stop_loss = recon_call.oco_sent[k].stop_price
                               /\ intent.bracket.take_profit = recon_call.oco_sent[k].target_price

\* C3: morning_reconcile sends no OCO request for an entry whose OCO order
\* (client_order_id "<entry id>_oco") the broker already holds.
C3_NoSecondOco ==
    last_cmd = "reconcile"
    => \A k \in 1..Len(recon_call.oco_sent) :
          get_order_by_client_id(recon_call.orders_before,
                                 <<recon_call.oco_sent[k].parent_id, "oco">>) = NoOrder

\* C4: a reconcile that runs on the day after a run placed its orders examines
\* every pending_oco record of that run's placement file.
C4_ReadsPreviousRun ==
    (last_cmd = "reconcile" /\ ~recon_call.crashed)
    => \A run \in DOMAIN placement_files :
          run = generate_run_id(DateOf(recon_call.as_of) - 1) =>
             \A i \in 1..Len(placement_files[run].placed) :
                placement_files[run].placed[i].pending_oco =>
                   placement_files[run].placed[i].order_id \in recon_call.examined

\* C5: every order a place command placed (each is logged in orders_log) still
\* has its entry, with its pending_oco flag, in the placement file of its run.
C5_PlacementPersists ==
    \A e \in 1..Len(orders_log) :
       /\ Exists(placement_files, orders_log[e].run_id)
       /\ \E i \in 1..Len(placement_files[orders_log[e].run_id].placed) :
             LET p == placement_files[orders_log[e].run_id].placed[i]
             IN /\ p.order_id = orders_log[e].order_id
                /\ p.pending_oco = orders_log[e].pending_oco

\* C6: every entry order the executor writes to the broker carries stop and
\* target legs or is recorded with pending_oco, and every placed entry of a
\* batch carries the strategy of the batch.
C6_EntryProtected ==
    /\ PlacedLive =>
          \A i \in 1..Len(place_call.placed) :
             /\ \/ orders[place_call.placed[i].order_id].order_class = "bracket"
                \/ place_call.placed[i].pending_oco
             /\ place_call.placed[i].strategy = place_call.strategy
    /\ (/\ last_cmd = "place_with_fallback"
        /\ fallback_call.success
        /\ fallback_call.posts = 1)
       => \/ orders[fallback_call.order_id].order_class = "bracket"
          \/ fallback_call.pending_oco

C8_StrategyPerBatch ==
    PlacedLive
    => LET expected ==
             IF \E i \in 1..Len(place_call.intents) :
                   ~place_call.intents[i].entry.open_only
             THEN "day_bracket"
             ELSE IF supports_cache = "True" THEN "opg_bracket"
             ELSE "opg_then_oco"
       IN /\ place_call.strategy = expected
          /\ \A i \in 1..Len(place_call.placed) :
                /\ place_call.placed[i].strategy = expected
                /\ orders[place_call.placed[i].order_id].time_in_force =
                      IF expected = "day_bracket" THEN "day" ELSE "opg"

\* a batch of two opening-auction intents placed with opg_then_oco
C8_Witness ==
    /\ PlacedLive
    /\ place_call.strategy = "opg_then_oco"
    /\ Len(place_call.placed) = 2

\* C9: morning_reconcile sends a cancel for exactly the open orders that are
\* opening-auction orders older than 18 hours at as_of.
C9_CancelsExactlyStaleOpg ==
    last_cmd = "reconcile"
    => recon_call.cancels_sent =
          {i \in 1..Len(recon_call.orders_before) :
              /\ recon_call.orders_before[i].status \in {"new", "partially_filled"}
              /\ recon_call.orders_before[i].time_in_force = "opg"
              /\ recon_call.as_of - recon_call.orders_before[i].created_at > StaleHours}

\* C10: morning_reconcile counts in partial_handled every placed order of the
\* run that the broker reports as partially filled.
C10_PartialFillsHandled ==
    (last_cmd = "reconcile" /\ ~recon_call.crashed
        /\ Exists(placement_files, recon_call.run_id))
    => recon_call.partial_handled =
          Cardinality({i \in 1..Len(placement_files[recon_call.run_id].placed) :
              recon_call.orders_before[placement_files[recon_call.run_id].placed[i].order_id].status
                  = "partially_filled"})

\* notional of an intent: quantity times limit price, or close without one
Notional(intent) ==
    IF intent.entry.limit_price # NoPrice THEN intent.qty * intent.entry.limit_price
    ELSE intent.qty * intent.meta.close

RECURSIVE TotalNotional(_)
TotalNotional(intents) ==
    IF intents = <<>> THEN 0
    ELSE Notional(Head(intents)) + TotalNotional(Tail(intents))

Occurrences(seq, x) == Cardinality({i \in 1..Len(seq) : seq[i] = x})

\* what C11 asks of one call: at most max_symbols intents, cumulative notional
\* within equity x pct / 100 (in cents: equity x pct), every returned intent an
\* input intent, unchanged, returned no more often than it was given
CapsRespected(given, selected, equity, max_symbols, pct) ==
    /\ Len(selected) <= max_symbols
    /\ TotalNotional(selected) <= equity * pct
    /\ \A k \in 1..Len(selected) :
          /\ \E i \in 1..Len(given) : given[i] = selected[k]
          /\ Occurrences(selected, selected[k]) <= Occurrences(given, selected[k])

\* C11: enforce_portfolio_caps returns at most max_symbols intents whose
\* cumulative notional is at most equity x max_gross_exposure_pct / 100, each
\* of them one of the input intents with its quantity unchanged; this holds
\* for a direct call and for the call the builder makes.
C11_CapsRespected ==
    /\ caps_call.called =>
          CapsRespected(caps_call.intents, caps_call.selected, caps_call.account_equity,
                        caps_call.max_symbols, caps_call.max_gross_exposure_pct)
    /\ build_call.called =>
          CapsRespected(build_call.before_caps, build_call.intents,
                        build_call.account_equity,
                        build_call.config.entry.max_symbols,
                        build_call.config.sizing.max_gross_exposure_pct)

\* three intents given, the second left out because it does not fit, the
\* first and the third returned
C11_Witness ==
    /\ caps_call.called
    /\ Len(caps_call.intents) = 3
    /\ Len(caps_call.selected) = 2
    /\ caps_call.max_symbols = 3
    /\ TotalNotional(caps_call.intents)
          > caps_call.account_equity * caps_call.max_gross_exposure_pct

\* the intents before the caps, best score first
SortedByScore(intents) ==
    SortDesc(intents, [i \in 1..Len(intents) |-> intents[i].meta.score])

\* C12: when the combined notional of the candidates exceeds the max gross
\* exposure, the intents the builder returns are a prefix of the list sorted
\* by score descending.
C12_StrictPrefix ==
    (/\ build_call.called
     /\ TotalNotional(build_call.before_caps)
           > build_call.account_equity * build_call.config.sizing.max_gross_exposure_pct)
    => /\ Len(build_call.intents) <= Len(build_call.before_caps)
       /\ \A k \in 1..Len(build_call.intents) :
             build_call.intents[k] = SortedByScore(build_call.before_caps)[k]

\* the symbol has an earnings date within the configured window
EarningsSoon(config, symbol) ==
    /\ symbol \in DOMAIN config.exclusions.earnings_map
    /\ 0 <= config.exclusions.earnings_map[symbol]
    /\ config.exclusions.earnings_map[symbol] <= config.exclusions.earnings_within_days

C14_SameIdOneOrderPerDay ==
    LET today == DateOf(now)
        todays == {i \in 1..Len(orders) :
                      orders[i].side = "buy" /\ DateOf(orders[i].created_at) = today}
    IN /\ Exists(intents_files, today) =>
             \A i \in todays : \A k \in 1..Len(intents_files[today]) :
                 intents_files[today][k].symbol = orders[i].symbol
                 => intents_files[today][k].client_order_id = orders[i].client_order_id
       /\ \A i, j \in todays : orders[i].symbol = orders[j].symbol => i = j

\* a symbol placed, built again the same day with another quantity, and the
\* second place skipped it as a duplicate
C14_Witness ==
    /\ last_cmd = "place"
    /\ place_call.called /\ ~place_call.dry_run
    /\ prev_place.called /\ ~prev_place.dry_run
    /\ Len(place_call.skipped) > 0
    /\ \E i \in 1..Len(orders) : \E k \in 1..Len(place_call.intents) :
          /\ place_call.intents[k].symbol = orders[i].symbol
          /\ place_call.intents[k].client_order_id = orders[i].client_order_id
          /\ place_call.intents[k].qty # orders[i].qty

\* floor(equity x risk percent / (ATR x stop multiplier)) in the units of the
\* model: equity in dollars, risk in 1/100 percent, ATR in cents, multiplier
\* in tenths
RiskShares(c) == (c.equity * c.risk_pct) \div (10 * c.atr * c.stop_mult)

\* floor(max position value / price), both in cents
CapShares(c) == (c.equity * c.max_pos_pct) \div c.price

\* the share count C15 describes for the inputs of one call
ExpectedShares(c) ==
    IF RiskShares(c) < 1 \/ RiskShares(c) * c.price < c.min_notional THEN 0
    ELSE IF RiskShares(c) * c.price <= c.equity * c.max_pos_pct THEN RiskShares(c)
    ELSE IF CapShares(c) < 1 \/ CapShares(c) * c.price < c.min_notional THEN 0
    ELSE CapShares(c)

\* C15: for a positive ATR, compute_position_size gives floor(equity x risk
\* percent / (ATR x stop multiplier)) shares, reduced to floor(max position
\* value / price) when their notional exceeds the maximum percent of equity,
\* and 0 when the count is below 1 or its notional below the minimum
\* notional; equity 50,000, entry 100, ATR 2, stop multiplier 1.5 and risk
\* 0.5% give exactly 83 before the cap, and 50 with a cap of 10% of equity.
C15_ShareFormula ==
    (sizing_call.called /\ sizing_call.atr * sizing_call.stop_mult > 0)
    => /\ sizing_call.sized = ExpectedShares(sizing_call)
       /\ (/\ sizing_call.equity = 50000 /\ sizing_call.price = 10000
           /\ sizing_call.atr = 200 /\ sizing_call.stop_mult = 15
           /\ sizing_call.risk_pct = 50)
          => /\ RiskShares(sizing_call) = 83
             /\ sizing_call.max_pos_pct = 100 => sizing_call.sized = 83
             /\ sizing_call.max_pos_pct = 10 => sizing_call.sized = 50

\* the example of the claim, sized under a cap of 10% of equity: 83 shares
\* by risk, reduced to 50
C15_Witness ==
    /\ sizing_call.called
    /\ sizing_call.equity = 50000 /\ sizing_call.price = 10000
    /\ sizing_call.atr = 200 /\ sizing_call.max_pos_pct = 10
    /\ RiskShares(sizing_call) = 83
    /\ sizing_call.sized = 50

\* two sizing calls that differ in nothing but the field named
SameBut(a, b, field) ==
    /\ a.called /\ b.called
    /\ \A f \in {"equity", "price", "atr", "stop_mult", "risk_pct", "min_notional",
                  "max_pos_pct"} \ {field} : a[f] = b[f]

\* C16 as stated: with everything else fixed, a larger equity never gives a
\* smaller share count of compute_safe_position_size, and a larger ATR never
\* gives a larger one.
C16_SizingMonotone ==
    /\ (SameBut(prev_sizing, sizing_call, "equity")
           /\ prev_sizing.equity <= sizing_call.equity)
       => prev_sizing.shares <= sizing_call.shares
    /\ (SameBut(prev_sizing, sizing_call, "atr") /\ prev_sizing.atr <= sizing_call.atr)
       => prev_sizing.shares >= sizing_call.shares

\* C16 amended: as C16, the ATR part for positive ATR values (an ATR of zero
\* gives zero shares).
C16_SizingMonotoneAmended ==
    /\ (SameBut(prev_sizing, sizing_call, "equity")
           /\ prev_sizing.equity <= sizing_call.equity)
       => prev_sizing.shares <= sizing_call.shares
    /\ (/\ SameBut(prev_sizing, sizing_call, "atr")
        /\ 0 < prev_sizing.atr /\ prev_sizing.atr <= sizing_call.atr)
       => prev_sizing.shares >= sizing_call.shares

\* a low-priced stock sized twice, the second time with more equity: the
\* first call gives fewer shares, the second is held at the 5000-share guard
C16_Witness ==
    /\ SameBut(prev_sizing, sizing_call, "equity")
    /\ prev_sizing.equity < sizing_call.equity
    /\ sizing_call.price < 500
    /\ sizing_call.sized > 5000
    /\ sizing_call.shares = 5000
    /\ 0 < prev_sizing.shares /\ prev_sizing.shares < 5000

\* C17: calculate_score_v2 never raises: with fewer than 250 bars it returns
\* a null score with reason insufficient_history, with 250 bars or more it
\* returns a score, or a null score with a reason.
C17_NeverRaises ==
    score_call.called
    => /\ ~score_call.raised
       /\ score_call.bars.n < 250
             => score_call.score = NoScore /\ score_call.reason = "insufficient_history"
       /\ score_call.bars.n >= 250
             => score_call.score # NoScore \/ score_call.reason # NoReason

\* the reason C18 gives for the inputs of one call: that of the first gate,
\* in the order volatility ratio, trend, pullback, whose closed interval the
\* value is outside of
FirstFailingGate(g) ==
    IF g.atr_ratio < 50 \/ g.atr_ratio > 800 THEN "gate_atr_ratio"
    ELSE IF g.close_t < g.sma50_t_minus_1 THEN "gate_trend_filter"
    ELSE IF g.pullback_pct < 500 \/ g.pullback_pct > 2000 THEN "gate_pullback_band"
    ELSE NoReason

\* C18: evaluate_gates checks volatility ratio, trend and pullback in this
\* order, each as a closed interval: an ATR ratio of exactly 0.5% or 8.0%, a
\* close equal to the 50-session average and a pullback of exactly 5% or 20%
\* pass, a value outside a boundary fails, and the reason is that of the
\* first failing gate.
C18_GatesOrderedInclusive ==
    gates_call.called
    => /\ gates_call.pass = (FirstFailingGate(gates_call) = NoReason)
       /\ gates_call.reason = FirstFailingGate(gates_call)
       /\ (/\ gates_call.atr_ratio \in {50, 800}
           /\ gates_call.close_t = gates_call.sma50_t_minus_1
           /\ gates_call.pullback_pct \in {500, 2000})
          => gates_call.pass

\* every value on a boundary: the gates pass
C18_Witness ==
    /\ gates_call.called
    /\ gates_call.atr_ratio = 800
    /\ gates_call.close_t = gates_call.sma50_t_minus_1
    /\ gates_call.pullback_pct = 500
    /\ gates_call.pass
    /\ gates_call.reason = NoReason

\* C19: a score calculate_score_v2 returns lies in [30, 75] and comes with no
\* reason; a null score comes with a reason; a composite computed outside
\* the band is returned as null with a reason.
C19_ScoreBand ==
    (score_call.called /\ ~score_call.raised)
    => /\ score_call.score # NoScore
             => /\ 3000 <= score_call.score /\ score_call.score <= 7500
                /\ score_call.score = score_call.computed
                /\ score_call.reason = NoReason
       /\ score_call.score = NoScore => score_call.reason # NoReason
       /\ (/\ score_call.computed # NoScore
           /\ (score_call.computed < 3000 \/ score_call.computed > 7500))
          => score_call.score = NoScore /\ score_call.reason # NoReason

\* a composite of 95 points computed, and discarded as too high
C19_Witness ==
    /\ score_call.called
    /\ score_call.computed = 9500
    /\ score_call.score = NoScore
    /\ score_call.reason = "score_too_high"

\* C20: two calls of calculate_score_v2 on the same bar sequence give the
\* same score and the same reason, whatever the clock, the market-regime
\* source and the calls before them.
C20_Deterministic ==
    (/\ score_call.called /\ prev_score.called
     /\ score_call.bars = prev_score.bars)
    => /\ score_call.raised = prev_score.raised
       /\ score_call.score = prev_score.score
       /\ score_call.reason = prev_score.reason

\* C28: an intent is reported as skipped 'duplicate' only if the broker holds
\* an order with its client_order_id; an intent whose duplicate lookup failed
\* is not submitted and is reported under errors.
C28_DuplicateOnlyIfFound ==
    (place_call.called /\ ~place_call.dry_run /\ last_cmd = "place")
    => \A k \in 1..Len(place_call.skipped) :
          place_call.skipped[k].reason = "duplicate"
          => get_order_by_client_id(orders, place_call.skipped[k].client_order_id)
                 # NoOrder

\* C29: the intents build_order_intents returns and the positions already
\* open together never number more than max_symbols.
C29_CapsCountOpenPositions ==
    build_call.called
    => Len(build_call.intents) + Cardinality(build_call.open_positions)
          <= build_call.config.entry.max_symbols

\* C21: two bar sequences that differ in nothing but the high, low and volume
\* of the last session T give the same SMA-50, 20-session high, 10-session
\* volume average, RSI and ATR.
C21_NoLookahead ==
    (/\ indicators_call.called /\ prev_indicators.called
     /\ indicators_call.history_end = prev_indicators.history_end
     /\ indicators_call.today.c = prev_indicators.today.c)
    => /\ indicators_call.sma50_t_minus_1 = prev_indicators.sma50_t_minus_1
       /\ indicators_call.high20_t_minus_1 = prev_indicators.high20_t_minus_1
       /\ indicators_call.vol_avg_10_t_minus_1 = prev_indicators.vol_avg_10_t_minus_1
       /\ indicators_call.rsi_raw = prev_indicators.rsi_raw
       /\ indicators_call.atr_raw = prev_indicators.atr_raw

\* the same history with two sessions T that differ in high, low and volume,
\* and indicators that are those of the history
C21_Witness ==
    /\ indicators_call.called /\ prev_indicators.called
    /\ indicators_call.history_end = prev_indicators.history_end
    /\ indicators_call.today.c = prev_indicators.today.c
    /\ indicators_call.today.h > prev_indicators.today.h
    /\ indicators_call.today.l < prev_indicators.today.l
    /\ indicators_call.today.v > prev_indicators.today.v
    /\ indicators_call.high20_t_minus_1 = 10300
    /\ indicators_call.atr_raw > 0
    /\ indicators_call.rsi_raw > 0

RunStateEdges ==
    {<<"created", "running">>, <<"running", "done">>, <<"running", "error">>,
     <<"running", "canceling">>, <<"canceling", "canceled">>}

StatsTotal(stats) == stats["timeout"] + stats["no_data"] + stats["low_liquidity"]

\* C23: when scan returns, every ticker is accounted for exactly once: it is
\* in the results and was never tallied, or it is not in the results and
\* was tallied under one reason, so the counts add up to the rejected
\* tickers; a ticker that timed out is tallied under 'timeout' only.
C23_EveryTickerOnce ==
    scan_return.returned =>
       /\ \A i \in 1..Len(ScanTickers) :
             /\ IF \E k \in 1..Len(scan_return.results) :
                      scan_return.results[k] = ScanTickers[i]
                THEN scan_return.tallied[i] = <<>>
                ELSE Len(scan_return.tallied[i]) = 1
             /\ (\E k \in 1..Len(scan_return.tallied[i]) :
                    scan_return.tallied[i][k] = "timeout")
                => scan_return.tallied[i] = <<"timeout">>
       /\ StatsTotal(scan_return.filter_stats) + Len(scan_return.results) = Len(ScanTickers)

\* the responses the claim lets a fetch retry after
Retryable(response) ==
    \/ response.kind = "network"
    \/ response.kind = "api_error" /\ response.code \in {429, 503, 504, 408}

\* C24: a bar fetch makes at most 3 attempts; an attempt answered with 400,
\* 401 or 403 is the last one and the fetch ends with an error; every attempt
\* that was followed by another one met a timeout, a connection error or a
\* status 429, 503, 504 or 408, and the waits between attempts grow as
\* powers of two; a fetch whose third attempt failed ends with an error.
C24_BoundedRetry ==
    fetch_call.called =>
       /\ fetch_call.attempts \in 1..3
       /\ \A k \in 1..fetch_call.attempts :
             /\ (fetch_call.responses[k].kind = "api_error"
                   /\ fetch_call.responses[k].code \in {400, 401, 403})
                => (fetch_call.attempts = k /\ fetch_call.returned = "raised")
             /\ k < fetch_call.attempts => Retryable(fetch_call.responses[k])
       /\ Len(fetch_call.sleeps) = fetch_call.attempts - 1
       /\ \A k \in 1..Len(fetch_call.sleeps) : fetch_call.sleeps[k] = 2 ^ (k - 1)
       /\ fetch_call.responses[fetch_call.attempts].kind # "frame"
          => fetch_call.returned = "raised"
       /\ fetch_call.returned = "frame"
          => fetch_call.responses[fetch_call.attempts].kind = "frame"

\* a fetch that was retried twice and failed, and a fetch that met a 403
\* on its second attempt
C24_Witness ==
    /\ fetch_call.called
    /\ fetch_call.attempts = 3
    /\ fetch_call.returned = "raised"
    /\ fetch_call.sleeps = <<1, 2>>
    /\ fetch_call.responses[1].kind = "network"
    /\ fetch_call.responses[2].code = 503
    /\ fetch_call.responses[3].code = 429

\* C25: under any interleaving of acquire, try_acquire and reset from several
\* threads the balance stays between 0 and the capacity, every granted call
\* removed exactly its n tokens from a balance that held at least n, and the
\* tokens granted never exceed the tokens put into the bucket.
C25_BucketSafe ==
    /\ tokens >= 0
    /\ tokens <= Capacity
    /\ last_grant.before >= last_grant.n
    /\ last_grant.after = last_grant.before - last_grant.n
    /\ tokens = ledger.supplied - ledger.granted

\* two threads were in their calls at the same time: thread 2 asked for more
\* than the bucket held and sleeps, thread 1 was granted the token there was
C25_Witness ==
    /\ last_grant.thread = 1
    /\ last_grant.n = 1
    /\ last_grant.after = 0
    /\ callers[2].pc = "sleeping"
    /\ callers[2].n = 2

\* the cache file of every symbol holds the complete content of the last
\* write of that symbol that returned, and is absent if there was none
CacheFilesWhole == \A s \in CacheSymbols : cache_files[<<"cache", s>>] = last_good[s]

\* C26 (as stated): at every moment the cache file of a symbol is whole, and
\* a write that failed left no temporary file behind and raised.
C26_AtomicWrite ==
    /\ CacheFilesWhole
    /\ last_write.result = "raised" => ~last_write.temp_left

\* C26 (amended): at every moment the cache file of a symbol is whole, and a
\* write that failed raised and left no temporary file behind unless the
\* removal of the temporary file failed as well.
C26_AtomicWriteAmended ==
    /\ CacheFilesWhole
    /\ (last_write.result = "raised" /\ last_write.temp_left) => last_write.unlink_failed

\* a write of A failed part-way after an earlier write of A had returned: the
\* temporary file is gone and the cache file holds the earlier content
C26_Witness ==
    /\ last_write.result = "raised"
    /\ last_write.symbol = "A"
    /\ ~last_write.temp_left
    /\ ~last_write.unlink_failed
    /\ cache_files[<<"cache", "A">>] = 1
    /\ cache_files[<<"tmp", "A">>] = 0

\* the pcs of write inside `with lock`
InsideLock == {"to_parquet", "writing", "replace", "cleanup"}

\* C27: the threads that write the same symbol have the same lock object and
\* are never inside `with lock` together; different symbols have different
\* locks, so a thread that waits for its lock waits for a thread that writes
\* the same symbol.
C27_LockPerSymbol ==
    /\ \A t, u \in Threads :
          (t # u /\ writers[t].lock # 0 /\ writers[u].lock # 0) =>
             /\ (writers[t].symbol = writers[u].symbol) = (writers[t].lock = writers[u].lock)
             /\ writers[t].symbol = writers[u].symbol
                => ~(writers[t].pc \in InsideLock /\ writers[u].pc \in InsideLock)
    /\ \A t \in Threads :
          (writers[t].pc = "with_lock" /\ lock_holders[writers[t].lock] # 0) =>
             writers[lock_holders[writers[t].lock]].symbol = writers[t].symbol

\* thread 1 is writing the temporary file of A while thread 2 waits for the
\* same lock, and, in another state, while thread 2 writes B
C27_Witness ==
    /\ writers[1].pc = "writing"
    /\ writers[1].symbol = "A"
    /\ writers[2].pc = "with_lock"
    /\ writers[2].symbol = "A"
    /\ writers[2].lock = writers[1].lock

====
